---------------------------- MODULE Spec2Model ----------------------------
(***************************************************************************)
(* Model of contained.af (kinvolk fork): the /profiles websocket endpoint  *)
(* (server.go), the container lifecycle against the Docker engine          *)
(* (docker.go) and the two relay pumps of a session.                       *)
(*                                                                         *)
(* A session is one invocation of profilesHandler.  Its state is the       *)
(* handler's locals (ctrInfo, the two websocket connections, the position  *)
(* of the handler goroutine and of the goroutine it spawns).  The engine   *)
(* is modelled by the log of the calls it receives.                        *)
(***************************************************************************)
EXTENDS Naturals, Sequences, FiniteSets, TLC

(***************************************************************************)
(* Bounds of the model.                                                    *)
(***************************************************************************)
\* frames the browser sends in one session
MaxFrames == 2
\* messages the container emits in one session
MaxOutput == 2

(***************************************************************************)
(* Strings that the code inspects character by character (port numbers)    *)
(* and payloads are sequences of one-character strings; all others are     *)
(* TLA+ strings.                                                           *)
(***************************************************************************)
Digits == {"0", "1", "2", "3", "4", "5", "6", "7", "8", "9"}

DigitVal(c) ==
    CASE c = "0" -> 0 [] c = "1" -> 1 [] c = "2" -> 2 [] c = "3" -> 3
      [] c = "4" -> 4 [] c = "5" -> 5 [] c = "6" -> 6 [] c = "7" -> 7
      [] c = "8" -> 8 [] c = "9" -> 9

DigitChar(d) ==
    CASE d = 0 -> "0" [] d = 1 -> "1" [] d = 2 -> "2" [] d = 3 -> "3"
      [] d = 4 -> "4" [] d = 5 -> "5" [] d = 6 -> "6" [] d = 7 -> "7"
      [] d = 8 -> "8" [] d = 9 -> "9"

\* the value of a run of decimal digits
DecimalValue(str) ==
    LET dv[i \in 0..Len(str)] ==
            IF i = 0 THEN 0 ELSE dv[i - 1] * 10 + DigitVal(str[i])
    IN  dv[Len(str)]

\* a 16-bit number printed with %d
Pow10(k) ==
    CASE k = 0 -> 1 [] k = 1 -> 10 [] k = 2 -> 100 [] k = 3 -> 1000 [] k = 4 -> 10000

NumDigits(n) ==
    IF n < 10 THEN 1 ELSE IF n < 100 THEN 2 ELSE IF n < 1000 THEN 3
    ELSE IF n < 10000 THEN 4 ELSE 5

FormatUint(n) ==
    [i \in 1..NumDigits(n) |-> DigitChar((n \div Pow10(NumDigits(n) - i)) % 10)]

\* strconv.ParseUint(s, 10, 16): a non-empty run of digits whose value fits 16 bits
ParseUint16(str) ==
    IF str = <<>> \/ \E i \in 1..Len(str) : str[i] \notin Digits
    THEN [val |-> 0, err |-> "invalid syntax"]
    ELSE IF DecimalValue(str) > 65535
         THEN [val |-> 0, err |-> "value out of range"]
         ELSE [val |-> DecimalValue(str), err |-> "nil"]

TcpSuffix == <<"/", "t", "c", "p">>

\* strings.Split(ports, "-"): the parts before and after the first "-" (the
\* second part ends at the next "-")
DashPositions(str) == {i \in 1..Len(str) : str[i] = "-"}

FirstDash(str, from) ==
    CHOOSE i \in DashPositions(str) :
        i >= from /\ \A j \in DashPositions(str) : j >= from => i <= j

SplitDash(str) ==
    LET d1 == FirstDash(str, 1)
        d2 == IF \E i \in DashPositions(str) : i > d1
              THEN FirstDash(str, d1 + 1) ELSE Len(str) + 1
    IN  <<SubSeq(str, 1, d1 - 1), SubSeq(str, d1 + 1, d2 - 1)>>

\* nat.ParsePortRange: one number, or two numbers around a "-"
ParsePortRange(ports) ==
    IF DashPositions(ports) = {}
    THEN LET p == ParseUint16(ports)
         IN  [start |-> p.val, end |-> p.val, err |-> p.err]
    ELSE LET a == ParseUint16(SplitDash(ports)[1])
             b == ParseUint16(SplitDash(ports)[2])
         IN  IF a.err # "nil" THEN [start |-> 0, end |-> 0, err |-> a.err]
             ELSE IF b.err # "nil" THEN [start |-> 0, end |-> 0, err |-> b.err]
             ELSE IF b.val < a.val
                  THEN [start |-> 0, end |-> 0, err |-> "invalid range specified for port"]
                  ELSE [start |-> a.val, end |-> b.val, err |-> "nil"]

\* nat.NewPort("tcp", portStr): "<n>/tcp" for one port, "<n>-<m>/tcp" for a
\* range, the numbers printed with %d
NewPort(portStr) ==
    LET r == ParsePortRange(portStr)
    IN  IF r.err # "nil" THEN [port |-> <<>>, err |-> r.err]
        ELSE IF r.start = r.end
             THEN [port |-> FormatUint(r.start) \o TcpSuffix, err |-> "nil"]
             ELSE [port |-> FormatUint(r.start) \o <<"-">> \o FormatUint(r.end) \o TcpSuffix,
                   err |-> "nil"]

\* nat.Port.Int(): the number before the "/", 0 when that is no number
PortInt(port) ==
    ParseUint16(SubSeq(port, 1, Len(port) - Len(TcpSuffix))).val

MinPort == 36100
MaxPort == 36110

validatePort(portStr) ==
    IF portStr = <<>> THEN [port |-> <<>>, err |-> "nil"]
    ELSE LET np == NewPort(portStr)
         IN  IF np.err # "nil" THEN [port |-> <<>>, err |-> np.err]
             ELSE IF PortInt(np.port) < MinPort \/ PortInt(np.port) > MaxPort
                  THEN [port |-> <<>>, err |-> "port not in range [36100, 36110]"]
                  ELSE [port |-> np.port, err |-> "nil"]

(***************************************************************************)
(* Profiles and the configuration builders of docker.go.                   *)
(***************************************************************************)
defaultDockerProfile == "default-docker"
weakDockerProfile == "weak-docker"
dockerProfiles == {defaultDockerProfile, weakDockerProfile}

defaultDockerImage == "alpine:latest"

\* A seccomp document is a sequence of tokens, white space included.
Whitespace == {" ", "\n", "\t"}
weakSeccompConfig ==
    <<"{", "\n", "\t", "\"defaultAction\":", " ", "\"SCMP_ACT_ERRNO\"", ",",
      "\n", "\t", "\"syscalls\":", " ", "[+unshare]", "\n", "}">>
defaultSeccompConfig ==
    <<"{", "\n", "\t", "\"defaultAction\":", " ", "\"SCMP_ACT_ERRNO\"", ",",
      "\n", "\t", "\"syscalls\":", " ", "[]", "\n", "}">>

\* the table of seccomp documents, one per profile of dockerProfiles
seccompConfigs ==
    [p \in dockerProfiles |->
        IF p = weakDockerProfile THEN weakSeccompConfig ELSE defaultSeccompConfig]

\* json.Compact: the document without its insignificant white space
JsonCompact(doc) == SelectSeq(doc, LAMBDA t : t \notin Whitespace)

PidsLimit == 5

BaseContainerConfig ==
    [Cmd |-> <<"sh">>, Tty |-> TRUE, AttachStdin |-> TRUE, AttachStdout |-> TRUE,
     AttachStderr |-> TRUE, OpenStdin |-> TRUE, StdinOnce |-> TRUE,
     ExposedPorts |-> {}, Image |-> "", User |-> ""]

BaseHostConfig ==
    [NetworkMode |-> "default", LogType |-> "none", PidsLimit |-> PidsLimit,
     PortBindings |-> {}, SecurityOpt |-> <<>>, Mounts |-> {}, CapAdd |-> <<>>]

withPort(port, cfg) ==
    IF port = <<>> THEN cfg ELSE [cfg EXCEPT !.ExposedPorts = {port}]

withDockerImage(image, cfg) ==
    IF image = "" THEN [cfg EXCEPT !.Image = defaultDockerImage]
    ELSE [cfg EXCEPT !.Image = image]

withDockerUser(profile, cfg) ==
    [cfg EXCEPT !.User = IF profile = weakDockerProfile THEN "" ELSE "nobody"]

\* withExposedPort that also puts the container on the network of the host
withExposedPortHostNetwork(port, cfg) ==
    IF port = <<>> THEN [cfg |-> cfg, err |-> "nil"]
    ELSE [cfg |-> [cfg EXCEPT !.NetworkMode = "host",
                              !.PortBindings =
                      {[Port |-> port, HostIP |-> "0.0.0.0", HostPort |-> port]}],
          err |-> "nil"]

withExposedPort(port, cfg) ==
    IF port = <<>> THEN [cfg |-> cfg, err |-> "nil"]
    ELSE [cfg |-> [cfg EXCEPT !.PortBindings =
                      {[Port |-> port, HostIP |-> "0.0.0.0", HostPort |-> port]}],
          err |-> "nil"]

\* withSecurityOptions that leaves the configuration alone when the profile
\* has no seccomp document
withSecurityOptionsOptional(profile, cfg) ==
    IF profile \notin DOMAIN seccompConfigs
    THEN [cfg |-> cfg, err |-> "nil"]
    ELSE [cfg |-> [cfg EXCEPT !.SecurityOpt =
                      <<<<"no-new-privileges">>,
                        <<"seccomp=">> \o JsonCompact(seccompConfigs[profile])>>],
          err |-> "nil"]

withSecurityOptions(profile, cfg) ==
    IF profile \notin DOMAIN seccompConfigs
    THEN [cfg |-> cfg, err |-> "seccomp config not found for profile"]
    ELSE [cfg |-> [cfg EXCEPT !.SecurityOpt =
                      <<<<"no-new-privileges">>,
                        <<"seccomp=">> \o JsonCompact(seccompConfigs[profile])>>],
          err |-> "nil"]

SharedMount ==
    [Type |-> "bind", Source |-> "/var/tmp/shared", Target |-> "/var/tmp/shared",
     ReadOnly |-> FALSE, Consistency |-> "default"]

\* withHostVolumes that also resets the added capabilities
withHostVolumesResetsCaps(profile, cfg) ==
    IF profile = weakDockerProfile
    THEN [cfg |-> [cfg EXCEPT !.Mounts = {SharedMount}, !.CapAdd = <<>>], err |-> "nil"]
    ELSE [cfg |-> cfg, err |-> "nil"]

withHostVolumes(profile, cfg) ==
    IF profile = weakDockerProfile
    THEN [cfg |-> [cfg EXCEPT !.Mounts = {SharedMount}], err |-> "nil"]
    ELSE [cfg |-> cfg, err |-> "nil"]

\* withCapabilities without the test of the profile
withCapabilitiesAnyProfile(profile, cfg) ==
    [cfg |-> [cfg EXCEPT !.CapAdd = <<"NET_ADMIN", "SYS_PTRACE", "SYS_CHROOT">>],
     err |-> "nil"]

withCapabilities(profile, cfg) ==
    IF profile = weakDockerProfile
    THEN [cfg |-> [cfg EXCEPT !.CapAdd = <<"NET_ADMIN", "SYS_PTRACE", "SYS_CHROOT">>],
          err |-> "nil"]
    ELSE [cfg |-> cfg, err |-> "nil"]

\* an option is a record [name, arg]; applying it calls the with* function
ApplyContainerOption(opt, cfg) ==
    CASE opt.name = "withPort" -> withPort(opt.arg, cfg)
      [] opt.name = "withDockerImage" -> withDockerImage(opt.arg, cfg)
      [] opt.name = "withDockerUser" -> withDockerUser(opt.arg, cfg)

ApplyHostOption(opt, cfg) ==
    CASE opt.name = "withExposedPort" -> withExposedPort(opt.arg, cfg)
      [] opt.name = "withSecurityOptions" -> withSecurityOptions(opt.arg, cfg)
      [] opt.name = "withHostVolumes" -> withHostVolumes(opt.arg, cfg)
      [] opt.name = "withCapabilities" -> withCapabilities(opt.arg, cfg)

\* the loop of NewContainerConfig
ApplyContainerOptions(opts, cfg) ==
    LET acc[i \in 0..Len(opts)] ==
            IF i = 0 THEN cfg ELSE ApplyContainerOption(opts[i], acc[i - 1])
    IN  acc[Len(opts)]

NewContainerConfig(opts) == ApplyContainerOptions(opts, BaseContainerConfig)

\* the loop of NewContainerHostConfig: the first failing option ends it
ApplyHostOptions(opts, cfg) ==
    LET acc[i \in 0..Len(opts)] ==
            IF i = 0 THEN [cfg |-> cfg, err |-> "nil"]
            ELSE IF acc[i - 1].err # "nil" THEN acc[i - 1]
                 ELSE ApplyHostOption(opts[i], acc[i - 1].cfg)
    IN  IF acc[Len(opts)].err # "nil"
        THEN [cfg |-> BaseHostConfig, err |-> acc[Len(opts)].err]
        ELSE acc[Len(opts)]

NewContainerHostConfig(opts) == ApplyHostOptions(opts, BaseHostConfig)


(***************************************************************************)
(* The request and constructContainerInfo (server.go).                     *)
(* A query parameter is the list of its values, <<>> when it is absent.    *)
(***************************************************************************)
EmptyInfo ==
    [dockerImage |-> "", port |-> <<>>, userns |-> FALSE, containerid |-> 0,
     dockerProfile |-> "", selinux |-> FALSE, apparmor |-> FALSE]

constructContainerInfo(q) ==
    LET c1 == IF Len(q.port) > 0 THEN [EmptyInfo EXCEPT !.port = q.port[1]]
              ELSE EmptyInfo
        c2 == IF Len(q.image) > 0 THEN [c1 EXCEPT !.dockerImage = q.image[1]] ELSE c1
        c3 == IF Len(q.profile) > 0 THEN [c2 EXCEPT !.dockerProfile = q.profile[1]]
              ELSE c2
        c4 == IF Len(q.userns) > 0 /\ q.userns[1] = "enabled"
              THEN [c3 EXCEPT !.userns = TRUE] ELSE c3
        c5 == IF Len(q.selinux) > 0
              THEN [c4 EXCEPT !.selinux = (q.selinux[1] # "disabled")] ELSE c4
        c6 == IF Len(q.apparmor) > 0
              THEN [c5 EXCEPT !.apparmor = (q.apparmor[1] # "disabled")] ELSE c5
    IN  IF Len(q.profile) > 0 /\ q.profile[1] \notin dockerProfiles
        THEN [info |-> EmptyInfo, err |-> "Docker profile is invalid."]
        ELSE [info |-> c6, err |-> "nil"]

\* h.client without the test of the flag
clientStandard(userns) == "dcli"

\* h.client(userns) and h.url(userns): the engine endpoint of a session
client(userns) == IF userns THEN "dUserNSCli" ELSE "dcli"

(***************************************************************************)
(* The part of startContainer before the first engine call: the port is    *)
(* validated and the two configurations are built.                         *)
(***************************************************************************)
buildConfigsWith(info, vp) ==
    LET ctrCfg == NewContainerConfig(
                      <<[name |-> "withPort", arg |-> vp.port],
                        [name |-> "withDockerImage", arg |-> info.dockerImage],
                        [name |-> "withDockerUser", arg |-> info.dockerProfile]>>)
        host == NewContainerHostConfig(
                      <<[name |-> "withExposedPort", arg |-> vp.port],
                        [name |-> "withSecurityOptions", arg |-> info.dockerProfile],
                        [name |-> "withHostVolumes", arg |-> info.dockerProfile],
                        [name |-> "withCapabilities", arg |-> info.dockerProfile]>>)
    IN  IF vp.err # "nil"
        THEN [ctrCfg |-> BaseContainerConfig, hostCfg |-> BaseHostConfig, err |-> vp.err]
        ELSE IF host.err # "nil"
             THEN [ctrCfg |-> ctrCfg, hostCfg |-> BaseHostConfig,
                   err |-> "creating container host config: " \o host.err]
             ELSE [ctrCfg |-> ctrCfg, hostCfg |-> host.cfg, err |-> "nil"]

buildConfigs(info) ==
    CHOOSE b \in {buildConfigsWith(info, vp) : vp \in {validatePort(info.port)}} : TRUE


(***************************************************************************)
(* State.                                                                  *)
(*   ss     the sessions: for each, the locals of its profilesHandler      *)
(*   calls  the engine calls made so far, in order, with their outcome     *)
(*   nextID the id the engine gives to the next container it creates       *)
(*   responses  the answers of the plain HTTP endpoints, in order          *)
(***************************************************************************)
VARIABLES ss, calls, nextID, responses

vars == <<ss, calls, nextID, responses>>

Sessions == {1, 2}

\* a websocket connection as gorilla/websocket keeps it on the server side
\*   open      the connection exists (upgraded or dialed)
\*   peer      what the peer has done: "open", "closeFrame" (a close frame was
\*             sent), "eof" (the stream ended without a close frame) or
\*             "failed" (the transport broke: reset, timeout)
\*   readErr   the sticky read error: "none", "close" (*CloseError) or "fail"
\*   reread    a read has returned the sticky read error again
\*   writeErr  the sticky write error: "none", "closeSent" (ErrCloseSent) or "fail"
\*   closed    Close() was called on it by this program
NoConn ==
    [open |-> FALSE, peer |-> "open", readErr |-> "none", reread |-> FALSE,
     writeErr |-> "none", closed |-> FALSE]
NewConn == [NoConn EXCEPT !.open = TRUE]

\* A payload is a sequence of bytes: an ASCII character, or the name of a
\* byte above 0x7F.  0xC3 0xA9 is the two-byte UTF-8 character e-acute.
LeadBytes == {"0xC3"}
ContinuationBytes == {"0xA9"}
\* U+FFFD, the replacement character
ReplacementChar == "0xEFBFBD"

\* a text of the program itself (a diagnostic, a close code), kept whole
Text(str) == <<str>>

\* A Go string that passes through encoding/json, in either direction, is
\* coerced to valid UTF-8: every byte that is not part of a valid sequence is
\* replaced by U+FFFD.
ToValidUTF8(b) ==
    [i \in 1..Len(b) |->
        IF b[i] \in LeadBytes
        THEN IF i < Len(b) /\ b[i + 1] \in ContinuationBytes THEN b[i]
             ELSE ReplacementChar
        ELSE IF b[i] \in ContinuationBytes
             THEN IF i > 1 /\ b[i - 1] \in LeadBytes THEN b[i] ELSE ReplacementChar
             ELSE b[i]]

\* type message struct of server.go
NoMessage == [Type |-> "", Data |-> <<>>, Height |-> 0, Width |-> 0]
StdoutMessage(data) == [NoMessage EXCEPT !.Type = "stdout", !.Data = data]
\* the close control message written at the end of the downstream pump
CloseMessage == [NoMessage EXCEPT !.Type = "<close>", !.Data = Text("1000")]

\* the message that the peer decodes from conn.WriteJSON(m), and the message
\* that conn.ReadJSON decodes from the frame m of the peer
JsonMessage(m) == [m EXCEPT !.Data = ToValidUTF8(@)]

\* the payloads of the stdin frames of the browser, by position in the session
StdinPayloads == << <<"l", "s", "\n">>, <<"p", "w", "d", "\n">>, <<"i", "d", "\n">> >>
StdinPayload(k) == StdinPayloads[((k - 1) % Len(StdinPayloads)) + 1]

\* what the browser may send as its k-th frame
BrowserFrames(k) ==
    {[NoMessage EXCEPT !.Type = "stdin", !.Data = StdinPayload(k)],
     [NoMessage EXCEPT !.Type = "stdin"],
     [NoMessage EXCEPT !.Type = "resize", !.Height = 40 + k, !.Width = 120 + k],
     [NoMessage EXCEPT !.Type = "ping"]}

\* what the container emits during a session, message by message: a prompt,
\* then a line whose last character is split between two messages
ContainerOutputs ==
    << <<"$", " ">>, <<"c", "a", "f", "0xC3">>, <<"0xA9", "\n">> >>
ContainerOutput(k) == ContainerOutputs[((k - 1) % Len(ContainerOutputs)) + 1]

NoRequest ==
    [port |-> <<>>, image |-> <<>>, profile |-> <<>>, userns |-> <<>>,
     selinux |-> <<>>, apparmor |-> <<>>]

\* the requests that are explored: no parameter at all, the default profile
\* alone, an unknown profile, a port out of range, a malformed port, and the
\* weak profile with a valid port, an image and the user namespace
Port36105 == <<"3", "6", "1", "0", "5">>
Port80 == <<"8", "0">>
PortAbc == <<"a", "b", "c">>
DefaultRequest == [NoRequest EXCEPT !.profile = <<defaultDockerProfile>>]
WeakRequest == [NoRequest EXCEPT !.profile = <<weakDockerProfile>>]
UserNSRequest ==
    [WeakRequest EXCEPT !.port = <<Port36105>>, !.image = <<"busybox">>,
                        !.userns = <<"enabled">>]
Requests ==
    {NoRequest, DefaultRequest, UserNSRequest,
     [NoRequest EXCEPT !.profile = <<"bogus">>],
     [DefaultRequest EXCEPT !.port = <<Port80>>, !.userns = <<"disabled">>],
     [WeakRequest EXCEPT !.port = <<PortAbc>>, !.userns = <<"enabled">>]}

\* a session before its request arrives; pcUp = "none" is a session that never runs
IdleSession ==
    [pcUp |-> "none", pcDown |-> "none", req |-> NoRequest, ctrInfo |-> EmptyInfo,
     err |-> "nil", ctrCfg |-> BaseContainerConfig, hostCfg |-> BaseHostConfig,
     conn |-> NoConn, cws |-> NoConn, data |-> NoMessage, msg |-> <<>>,
     toBrowser |-> <<>>, toContainer |-> <<>>, done |-> FALSE,
     framesRead |-> 0, outputsRead |-> 0, ctrOpts |-> <<>>, hostOpts |-> <<>>]

NewSession(q) == [IdleSession EXCEPT !.pcUp = "upgrade", !.req = q]

Init ==
    /\ \E q \in Requests : ss = [s \in Sessions |-> IF s = 1 THEN NewSession(q)
                                                     ELSE IdleSession]
    /\ calls = <<>>
    /\ nextID = 1
    /\ responses = <<>>

\* one request that validation accepts, for the properties of streaming
\* sessions; StreamingSessions are the sessions that it starts
StreamingSessions == {1}

InitStreaming ==
    /\ ss = [s \in Sessions |-> IF s \in StreamingSessions THEN NewSession(UserNSRequest)
                                ELSE IdleSession]
    /\ calls = <<>>
    /\ nextID = 1
    /\ responses = <<>>

\* an engine call as the log keeps it
Call(s, verb, res) ==
    [by |-> s, verb |-> verb, ep |-> client(ss[s].ctrInfo.userns),
     cid |-> ss[s].ctrInfo.containerid, image |-> ss[s].ctrInfo.dockerImage,
     height |-> 0, width |-> 0, res |-> res]

Set(s, r) == ss' = [ss EXCEPT ![s] = r]

(***************************************************************************)
(* Writes on a websocket connection.  A write on a connection with a       *)
(* sticky write error returns that error; a write on a connection this     *)
(* program closed fails; a write to a peer that is gone may fail.          *)
(***************************************************************************)
WriteResults(c) ==
    IF c.writeErr # "none" THEN {c.writeErr}
    ELSE IF c.closed THEN {"fail"}
    ELSE IF c.peer \in {"open", "closeFrame"} THEN {"ok"}
    ELSE {"ok", "fail"}

\* the connection after a data write with result w
AfterWrite(c, w) ==
    IF w = "fail" /\ c.writeErr = "none" THEN [c EXCEPT !.writeErr = "fail"] ELSE c

\* the connection after a close message was written (by the application or by
\* the default close handler): later writes return ErrCloseSent
AfterCloseWrite(c) ==
    IF c.writeErr = "none" THEN [c EXCEPT !.writeErr = "closeSent"] ELSE c

(***************************************************************************)
(* Reads on a websocket connection: what the next read returns.            *)
(*   "msg"    a message of the peer (when the peer is there)               *)
(*   "close"  a *CloseError: the peer sent a close frame or the stream     *)
(*            ended                                                        *)
(*   "fail"   any other error                                              *)
(***************************************************************************)
ReadResult(c) ==
    IF c.readErr # "none" THEN c.readErr
    ELSE IF c.closed THEN "fail"
    ELSE IF c.peer \in {"closeFrame", "eof"} THEN "close"
    ELSE IF c.peer = "failed" THEN "fail"
    ELSE "msg"

\* the connection after a read that returned the error r; on a close frame the
\* default close handler answers with a close message
AfterReadError(c, r) ==
    LET c1 == IF c.readErr = "none" THEN [c EXCEPT !.readErr = r]
              ELSE [c EXCEPT !.reread = TRUE]
    IN  IF c.readErr = "none" /\ r = "close" /\ c.peer = "closeFrame"
        THEN AfterCloseWrite(c1) ELSE c1


(***************************************************************************)
(* profilesHandler up to the streaming loop.                               *)
(***************************************************************************)
\* upgrader.Upgrade: on failure the handler returns without a connection
Upgrade(s) ==
    /\ UNCHANGED responses
    /\ ss[s].pcUp = "upgrade"
    /\ \E ok \in BOOLEAN :
          IF ok THEN Set(s, [ss[s] EXCEPT !.pcUp = "construct", !.conn = NewConn])
          ELSE Set(s, [ss[s] EXCEPT !.pcUp = "returned"])
    /\ UNCHANGED <<calls, nextID>>

\* constructContainerInfo and, when it fails, the diagnostic and the return
ConstructInfo(s) ==
    /\ UNCHANGED responses
    /\ ss[s].pcUp = "construct"
    /\ \E c \in {constructContainerInfo(ss[s].req)} :
           IF c.err # "nil"
           THEN \E w \in WriteResults(ss[s].conn) :
                   Set(s, [ss[s] EXCEPT
                             !.pcUp = "returned", !.err = c.err,
                             !.conn = AfterWrite(@, w),
                             !.toBrowser =
                                 IF w = "ok"
                                 THEN Append(@, JsonMessage(StdoutMessage(Text(
                                        "generating container info failed: " \o c.err))))
                                 ELSE @])
           ELSE Set(s, [ss[s] EXCEPT !.pcUp = "build", !.ctrInfo = c.info])
    /\ UNCHANGED <<calls, nextID>>

\* BuildConfig without the assignment of ctrCfg.Image to ctrInfo.dockerImage
BuildConfigImageNotCopied(s) ==
    /\ UNCHANGED responses
    /\ ss[s].pcUp = "build"
    /\ \E b \in {buildConfigs(ss[s].ctrInfo)} :
           IF b.err # "nil"
           THEN Set(s, [ss[s] EXCEPT !.pcUp = "failed", !.err = b.err])
           ELSE Set(s, [ss[s] EXCEPT !.pcUp = "inspect",
                                     !.ctrCfg = b.ctrCfg, !.hostCfg = b.hostCfg])
    /\ UNCHANGED <<calls, nextID>>

\* startContainer, before the engine is called: validatePort and the two configs
BuildConfig(s) ==
    /\ UNCHANGED responses
    /\ ss[s].pcUp = "build"
    /\ \E b \in {buildConfigs(ss[s].ctrInfo)} :
           IF b.err # "nil"
           THEN Set(s, [ss[s] EXCEPT !.pcUp = "failed", !.err = b.err])
           ELSE Set(s, [ss[s] EXCEPT !.pcUp = "inspect",
                                     !.ctrCfg = b.ctrCfg, !.hostCfg = b.hostCfg,
                                     !.ctrInfo.dockerImage = b.ctrCfg.Image])
    /\ UNCHANGED <<calls, nextID>>

\* imageExists that takes every error of the inspect for an absent image
ImageInspectAbsentOnError(s) ==
    /\ UNCHANGED responses
    /\ ss[s].pcUp = "inspect"
    /\ \E res \in {"ok", "notfound", "err"} :
          /\ calls' = Append(calls, Call(s, "inspect", res))
          /\ Set(s, [ss[s] EXCEPT !.pcUp = IF res = "ok" THEN "create" ELSE "pull"])
    /\ UNCHANGED nextID

\* imageExists: ImageInspectWithRaw
ImageInspect(s) ==
    /\ UNCHANGED responses
    /\ ss[s].pcUp = "inspect"
    /\ \E res \in {"ok", "notfound", "err"} :
          /\ calls' = Append(calls, Call(s, "inspect", res))
          /\ Set(s, [ss[s] EXCEPT
                       !.pcUp = CASE res = "ok" -> "create"
                                  [] res = "notfound" -> "pull"
                                  [] OTHER -> "failed",
                       !.err = IF res = "err" THEN "pulling failed: inspect" ELSE @])
    /\ UNCHANGED nextID

\* pullImage whose error startContainer does not look at
ImagePullErrorIgnored(s) ==
    /\ UNCHANGED responses
    /\ ss[s].pcUp = "pull"
    /\ \E res \in {"ok", "err"} :
          /\ calls' = Append(calls, Call(s, "pull", res))
          /\ Set(s, [ss[s] EXCEPT !.pcUp = "create"])
    /\ UNCHANGED nextID

\* pullImage: ImagePull and the display of its progress stream
ImagePull(s) ==
    /\ UNCHANGED responses
    /\ ss[s].pcUp = "pull"
    /\ \E res \in {"ok", "err"} :
          /\ calls' = Append(calls, Call(s, "pull", res))
          /\ Set(s, [ss[s] EXCEPT
                       !.pcUp = IF res = "ok" THEN "create" ELSE "failed",
                       !.err = IF res = "err" THEN "pulling failed: pull" ELSE @])
    /\ UNCHANGED nextID

\* ContainerCreate followed by ContainerStart, the attach dial forgotten
ContainerCreateThenStart(s) ==
    /\ UNCHANGED responses
    /\ ss[s].pcUp = "create"
    /\ \E res \in {"ok", "err"} :
          /\ calls' = Append(calls, [Call(s, "create", res) EXCEPT
                                       !.cid = IF res = "ok" THEN nextID ELSE 0])
          /\ IF res = "ok"
             THEN /\ Set(s, [ss[s] EXCEPT !.pcUp = "start",
                                          !.ctrInfo.containerid = nextID])
                  /\ nextID' = nextID + 1
             ELSE /\ Set(s, [ss[s] EXCEPT !.pcUp = "failed", !.err = "create failed"])
                  /\ UNCHANGED nextID

\* ContainerCreate with the container id kept in a field that the sessions share
ContainerCreateSharedInfo(s) ==
    /\ UNCHANGED responses
    /\ ss[s].pcUp = "create"
    /\ \E res \in {"ok", "err"} :
          /\ calls' = Append(calls, [Call(s, "create", res) EXCEPT
                                       !.cid = IF res = "ok" THEN nextID ELSE 0])
          /\ IF res = "ok"
             THEN /\ ss' = [t \in DOMAIN ss |->
                              IF t = s THEN [ss[t] EXCEPT !.pcUp = "attach",
                                                          !.ctrInfo.containerid = nextID]
                              ELSE [ss[t] EXCEPT !.ctrInfo.containerid = nextID]]
                  /\ nextID' = nextID + 1
             ELSE /\ Set(s, [ss[s] EXCEPT !.pcUp = "failed", !.err = "create failed"])
                  /\ UNCHANGED nextID

\* ContainerCreate; the id the engine returns is kept in ctrInfo
ContainerCreate(s) ==
    /\ UNCHANGED responses
    /\ ss[s].pcUp = "create"
    /\ \E res \in {"ok", "err"} :
          /\ calls' = Append(calls, [Call(s, "create", res) EXCEPT
                                       !.cid = IF res = "ok" THEN nextID ELSE 0])
          /\ IF res = "ok"
             THEN /\ Set(s, [ss[s] EXCEPT !.pcUp = "attach",
                                          !.ctrInfo.containerid = nextID])
                  /\ nextID' = nextID + 1
             ELSE /\ Set(s, [ss[s] EXCEPT !.pcUp = "failed", !.err = "create failed"])
                  /\ UNCHANGED nextID

\* dialer.Dial of the engine's attach websocket
Attach(s) ==
    /\ UNCHANGED responses
    /\ ss[s].pcUp = "attach"
    /\ \E res \in {"ok", "err"} :
          /\ calls' = Append(calls, Call(s, "attach", res))
          /\ Set(s, IF res = "ok"
                    THEN [ss[s] EXCEPT !.pcUp = "start", !.cws = NewConn]
                    ELSE [ss[s] EXCEPT !.pcUp = "failed", !.err = "dialing failed"])
    /\ UNCHANGED nextID

\* ContainerStart; on success the handler defers the close of the container
\* connection, starts the downstream goroutine and enters its read loop
ContainerStart(s) ==
    /\ UNCHANGED responses
    /\ ss[s].pcUp = "start"
    /\ \E res \in {"ok", "err"} :
          /\ calls' = Append(calls, Call(s, "start", res))
          /\ Set(s, IF res = "ok"
                    THEN [ss[s] EXCEPT !.pcUp = "read", !.pcDown = "read"]
                    ELSE [ss[s] EXCEPT !.pcUp = "failed", !.err = "start failed"])
    /\ UNCHANGED nextID

\* startContainer returned an error: the diagnostic and the return
StartFailed(s) ==
    /\ UNCHANGED responses
    /\ ss[s].pcUp = "failed"
    /\ \E w \in WriteResults(ss[s].conn) :
          Set(s, [ss[s] EXCEPT
                    !.pcUp = "returned",
                    !.conn = AfterWrite(@, w),
                    !.toBrowser =
                        IF w = "ok"
                        THEN Append(@, JsonMessage(StdoutMessage(Text(
                               "starting container failed: " \o ss[s].err))))
                        ELSE @])
    /\ UNCHANGED <<calls, nextID>>


(***************************************************************************)
(* removeContainer: ContainerRemove on the session's engine endpoint with  *)
(* the session's container id.  Its error is logged by every caller.       *)
(***************************************************************************)
\* the engine has removed the container of session s
Removed(s) ==
    \E i \in 1..Len(calls) :
        /\ calls[i].verb = "remove"
        /\ calls[i].cid = ss[s].ctrInfo.containerid
        /\ calls[i].res = "ok"

\* what the engine endpoint ep may answer to a remove or a resize of session
\* s: any call may fail, and a call for a container that is gone, or that the
\* endpoint never created, does fail
EngineResults(s, ep) ==
    IF Removed(s) \/ ep # client(ss[s].ctrInfo.userns) THEN {"err"} ELSE {"ok", "err"}

removeContainer(s) ==
    \E res \in EngineResults(s, client(ss[s].ctrInfo.userns)) :
        calls' = Append(calls, Call(s, "remove", res))

(***************************************************************************)
(* The upstream pump: the read loop of the handler goroutine.              *)
(***************************************************************************)
\* conn.ReadJSON with a *CloseError handled like any other read error
UpReadCloseAsError(s) ==
    /\ UNCHANGED responses
    /\ ss[s].pcUp = "read"
    /\ LET r == ReadResult(ss[s].conn)
       IN  CASE r = "msg" ->
                  /\ ss[s].framesRead < MaxFrames
                  /\ \/ \E f \in BrowserFrames(ss[s].framesRead + 1) :
                           Set(s, [ss[s] EXCEPT !.pcUp = "dispatch",
                                                !.data = JsonMessage(f),
                                                !.framesRead = @ + 1])
                     \/ Set(s, [ss[s] EXCEPT !.framesRead = @ + 1])
             [] r \in {"close", "fail"} ->
                  /\ ss[s].conn.readErr = "none" \/ ~ss[s].conn.reread
                  /\ Set(s, [ss[s] EXCEPT !.conn = AfterReadError(@, r)])
    /\ UNCHANGED <<calls, nextID>>

\* conn.ReadJSON.  A message that is no JSON object is an error that is logged.
UpRead(s) ==
    /\ UNCHANGED responses
    /\ ss[s].pcUp = "read"
    /\ LET r == ReadResult(ss[s].conn)
       IN  CASE r = "msg" ->
                  /\ ss[s].framesRead < MaxFrames
                  /\ \/ \E f \in BrowserFrames(ss[s].framesRead + 1) :
                           Set(s, [ss[s] EXCEPT !.pcUp = "dispatch",
                                                !.data = JsonMessage(f),
                                                !.framesRead = @ + 1])
                     \/ Set(s, [ss[s] EXCEPT !.framesRead = @ + 1])
             [] r = "close" ->
                  Set(s, [ss[s] EXCEPT !.pcUp = "removeOnClose",
                                       !.conn = AfterReadError(@, r)])
             [] r = "fail" ->
                  /\ ss[s].conn.readErr = "none" \/ ~ss[s].conn.reread
                  /\ Set(s, [ss[s] EXCEPT !.conn = AfterReadError(@, r)])
    /\ UNCHANGED <<calls, nextID>>

\* case "stdin" without the test of the payload's length
UpStdinAnyLength(s) ==
    /\ UNCHANGED responses
    /\ ss[s].pcUp = "dispatch"
    /\ ss[s].data.Type = "stdin"
    /\ \E w \in WriteResults(ss[s].cws) :
          Set(s, [ss[s] EXCEPT
                    !.pcUp = IF w = "closeSent" THEN "removeOnCloseSent" ELSE "read",
                    !.data = NoMessage,
                    !.cws = AfterWrite(@, w),
                    !.toContainer = IF w = "ok" THEN Append(@, ss[s].data.Data)
                                    ELSE @])
    /\ UNCHANGED <<calls, nextID>>

\* case "stdin": a non-empty payload is written to the container connection
UpStdin(s) ==
    /\ UNCHANGED responses
    /\ ss[s].pcUp = "dispatch"
    /\ ss[s].data.Type = "stdin"
    /\ IF Len(ss[s].data.Data) = 0
       THEN Set(s, [ss[s] EXCEPT !.pcUp = "read", !.data = NoMessage])
       ELSE \E w \in WriteResults(ss[s].cws) :
               Set(s, [ss[s] EXCEPT
                         !.pcUp = IF w = "closeSent" THEN "removeOnCloseSent" ELSE "read",
                         !.data = NoMessage,
                         !.cws = AfterWrite(@, w),
                         !.toContainer = IF w = "ok" THEN Append(@, ss[s].data.Data)
                                         ELSE @])
    /\ UNCHANGED <<calls, nextID>>

\* ErrCloseSent on the container connection: removeContainer, then the break
\* that leaves the switch and goes on with the loop
UpRemoveOnCloseSent(s) ==
    /\ UNCHANGED responses
    /\ ss[s].pcUp = "removeOnCloseSent"
    /\ removeContainer(s)
    /\ Set(s, [ss[s] EXCEPT !.pcUp = "read"])
    /\ UNCHANGED nextID

\* case "resize" with the height and the width of the frame exchanged
UpResizeSwapped(s) ==
    /\ UNCHANGED responses
    /\ ss[s].pcUp = "dispatch"
    /\ ss[s].data.Type = "resize"
    /\ \E res \in EngineResults(s, "dcli") :
          calls' = Append(calls, [Call(s, "resize", res) EXCEPT
                                     !.ep = "dcli",
                                     !.height = ss[s].data.Width,
                                     !.width = ss[s].data.Height])
    /\ Set(s, [ss[s] EXCEPT !.pcUp = "read", !.data = NoMessage])
    /\ UNCHANGED nextID

\* case "resize" with a failed call that leaves the loop
UpResizeFatal(s) ==
    /\ UNCHANGED responses
    /\ ss[s].pcUp = "dispatch"
    /\ ss[s].data.Type = "resize"
    /\ \E res \in EngineResults(s, "dcli") :
          /\ calls' = Append(calls, [Call(s, "resize", res) EXCEPT
                                        !.ep = "dcli",
                                        !.height = ss[s].data.Height,
                                        !.width = ss[s].data.Width])
          /\ Set(s, [ss[s] EXCEPT
                       !.pcUp = IF res = "err" THEN "removeAfterLoop" ELSE "read",
                       !.data = NoMessage])
    /\ UNCHANGED nextID

\* case "resize": h.dcli.ContainerResize; its error is logged
UpResize(s) ==
    /\ UNCHANGED responses
    /\ ss[s].pcUp = "dispatch"
    /\ ss[s].data.Type = "resize"
    /\ \E res \in EngineResults(s, "dcli") :
          calls' = Append(calls, [Call(s, "resize", res) EXCEPT
                                     !.ep = "dcli",
                                     !.height = ss[s].data.Height,
                                     !.width = ss[s].data.Width])
    /\ Set(s, [ss[s] EXCEPT !.pcUp = "read", !.data = NoMessage])
    /\ UNCHANGED nextID

\* default: with an answer to the browser, written by the handler
UpUnknownAnswers(s) ==
    /\ UNCHANGED responses
    /\ ss[s].pcUp = "dispatch"
    /\ ss[s].data.Type \notin {"stdin", "resize"}
    /\ \E w \in WriteResults(ss[s].conn) :
          Set(s, [ss[s] EXCEPT
                    !.pcUp = "read", !.data = NoMessage,
                    !.conn = AfterWrite(@, w),
                    !.toBrowser =
                        IF w = "ok"
                        THEN Append(@, JsonMessage(StdoutMessage(Text(
                               "got unknown data type"))))
                        ELSE @])
    /\ UNCHANGED <<calls, nextID>>

\* default: with a break that leaves the loop
UpUnknownLeavesLoop(s) ==
    /\ UNCHANGED responses
    /\ ss[s].pcUp = "dispatch"
    /\ ss[s].data.Type \notin {"stdin", "resize"}
    /\ Set(s, [ss[s] EXCEPT !.pcUp = "removeAfterLoop", !.data = NoMessage])
    /\ UNCHANGED <<calls, nextID>>

\* default: the frame is logged
UpUnknown(s) ==
    /\ UNCHANGED responses
    /\ ss[s].pcUp = "dispatch"
    /\ ss[s].data.Type \notin {"stdin", "resize"}
    /\ Set(s, [ss[s] EXCEPT !.pcUp = "read", !.data = NoMessage])
    /\ UNCHANGED <<calls, nextID>>

\* the browser connection returned a *CloseError: removeContainer, then break
UpRemoveOnClose(s) ==
    /\ UNCHANGED responses
    /\ ss[s].pcUp = "removeOnClose"
    /\ removeContainer(s)
    /\ Set(s, [ss[s] EXCEPT !.pcUp = "removeAfterLoop"])
    /\ UNCHANGED nextID

\* after the loop: removeContainer, and the return runs the deferred
\* containerWSConn.Close()
UpRemoveAfterLoop(s) ==
    /\ UNCHANGED responses
    /\ ss[s].pcUp = "removeAfterLoop"
    /\ removeContainer(s)
    /\ Set(s, [ss[s] EXCEPT !.pcUp = "returned", !.cws.closed = TRUE])
    /\ UNCHANGED nextID

(***************************************************************************)
(* The downstream pump: the goroutine started by the handler.              *)
(***************************************************************************)
\* containerWSConn.ReadMessage
DownRead(s) ==
    /\ UNCHANGED responses
    /\ ss[s].pcDown = "read"
    /\ LET r == ReadResult(ss[s].cws)
       IN  CASE r = "msg" ->
                  /\ ss[s].outputsRead < MaxOutput
                  /\ Set(s, [ss[s] EXCEPT !.pcDown = "write",
                                          !.msg = ContainerOutput(ss[s].outputsRead + 1),
                                          !.outputsRead = @ + 1])
             [] r = "close" ->
                  Set(s, [ss[s] EXCEPT !.pcDown = "removeOnClose",
                                       !.cws = AfterReadError(@, r)])
             [] r = "fail" ->
                  /\ ss[s].cws.readErr = "none" \/ ~ss[s].cws.reread
                  /\ Set(s, [ss[s] EXCEPT !.cws = AfterReadError(@, r)])
    /\ UNCHANGED <<calls, nextID>>

\* conn.WriteJSON of the payload wrapped as a stdout message
DownWrite(s) ==
    /\ UNCHANGED responses
    /\ ss[s].pcDown = "write"
    /\ \E w \in WriteResults(ss[s].conn) :
          Set(s, [ss[s] EXCEPT
                    !.pcDown = IF w = "closeSent" THEN "removeOnCloseSent" ELSE "read",
                    !.msg = <<>>,
                    !.conn = AfterWrite(@, w),
                    !.toBrowser =
                        IF w = "ok"
                        THEN Append(@, JsonMessage(StdoutMessage(ss[s].msg)))
                        ELSE @])
    /\ UNCHANGED <<calls, nextID>>

\* the container connection returned a *CloseError, and the goroutine goes to
\* the close of the browser connection without removeContainer
DownRemoveOnCloseNoRemove(s) ==
    /\ UNCHANGED responses
    /\ ss[s].pcDown = "removeOnClose"
    /\ Set(s, [ss[s] EXCEPT !.pcDown = "closeBrowser"])
    /\ UNCHANGED <<calls, nextID>>

\* DownRemoveOnClose that tells the browser when removeContainer failed
DownRemoveOnCloseReports(s) ==
    /\ UNCHANGED responses
    /\ ss[s].pcDown = "removeOnClose"
    /\ \E res \in EngineResults(s, client(ss[s].ctrInfo.userns)) :
          /\ calls' = Append(calls, Call(s, "remove", res))
          /\ Set(s, [ss[s] EXCEPT
                       !.pcDown = "closeBrowser",
                       !.toBrowser =
                           IF res = "err"
                           THEN Append(@, JsonMessage(StdoutMessage(Text(
                                  "removing container failed"))))
                           ELSE @])
    /\ UNCHANGED nextID

\* the container connection returned a *CloseError: removeContainer
DownRemoveOnClose(s) ==
    /\ UNCHANGED responses
    /\ ss[s].pcDown = "removeOnClose"
    /\ removeContainer(s)
    /\ Set(s, [ss[s] EXCEPT !.pcDown = "closeBrowser"])
    /\ UNCHANGED nextID

\* the goroutine ends: the deferred close(done) and containerWSConn.Close()
DownExit(r) == [r EXCEPT !.pcDown = "done", !.done = TRUE, !.cws.closed = TRUE]

\* the close message to the browser (its error is logged), then break
DownCloseBrowser(s) ==
    /\ UNCHANGED responses
    /\ ss[s].pcDown = "closeBrowser"
    /\ \E w \in WriteResults(ss[s].conn) :
          Set(s, DownExit([ss[s] EXCEPT
                    !.conn = IF w = "ok" THEN AfterCloseWrite(@) ELSE AfterWrite(@, w),
                    !.toBrowser = IF w = "ok" THEN Append(@, CloseMessage) ELSE @]))
    /\ UNCHANGED <<calls, nextID>>

\* ErrCloseSent on the browser connection: removeContainer, then break
DownRemoveOnCloseSent(s) ==
    /\ UNCHANGED responses
    /\ ss[s].pcDown = "removeOnCloseSent"
    /\ removeContainer(s)
    /\ Set(s, DownExit(ss[s]))
    /\ UNCHANGED nextID

(***************************************************************************)
(* The peers.  While a session streams, the browser and the container may  *)
(* each close their connection cleanly, end it, or be lost.  Once both     *)
(* pumps have ended nothing of the program observes the peers any more.    *)
(***************************************************************************)
Streaming(s) == ss[s].pcDown # "none"

PumpRunning(s) == ss[s].pcUp # "returned" \/ ss[s].pcDown # "done"

BrowserPeer(s) ==
    /\ UNCHANGED responses
    /\ Streaming(s)
    /\ PumpRunning(s)
    /\ ss[s].conn.peer = "open"
    /\ \E how \in {"closeFrame", "eof", "failed"} :
          Set(s, [ss[s] EXCEPT !.conn.peer = how])
    /\ UNCHANGED <<calls, nextID>>

ContainerPeer(s) ==
    /\ UNCHANGED responses
    /\ Streaming(s)
    /\ PumpRunning(s)
    /\ ss[s].cws.peer = "open"
    /\ \E how \in {"closeFrame", "eof", "failed"} :
          Set(s, [ss[s] EXCEPT !.cws.peer = how])
    /\ UNCHANGED <<calls, nextID>>

(***************************************************************************)
(* The specification.                                                      *)
(***************************************************************************)
Handler(s) ==
    \/ Upgrade(s) \/ ConstructInfo(s) \/ BuildConfig(s) \/ ImageInspect(s)
    \/ ImagePull(s) \/ ContainerCreate(s) \/ Attach(s) \/ ContainerStart(s)
    \/ StartFailed(s) \/ UpRead(s) \/ UpStdin(s) \/ UpRemoveOnCloseSent(s)
    \/ UpResize(s) \/ UpUnknown(s) \/ UpRemoveOnClose(s) \/ UpRemoveAfterLoop(s)

Downstream(s) ==
    \/ DownRead(s) \/ DownWrite(s) \/ DownRemoveOnClose(s) \/ DownCloseBrowser(s)
    \/ DownRemoveOnCloseSent(s)

Next ==
    \E s \in Sessions :
        \/ Handler(s)
        \/ Downstream(s)
        \/ BrowserPeer(s)
        \/ ContainerPeer(s)

Spec == Init /\ [][Next]_vars

\* the Go scheduler runs every goroutine that can take a step
FairSpec ==
    /\ InitStreaming
    /\ [][Next]_vars
    /\ \A s \in StreamingSessions : WF_vars(Handler(s)) /\ WF_vars(Downstream(s))


(***************************************************************************)
(* Vocabulary of the properties.                                           *)
(***************************************************************************)
CallsOf(s, verb) ==
    {i \in 1..Len(calls) : calls[i].by = s /\ calls[i].verb = verb}

\* the remove calls that carry the container id of session s
RemovesOf(s) ==
    {i \in CallsOf(s, "remove") : calls[i].cid = ss[s].ctrInfo.containerid}

\* the container of session s was created
Created(s) == ss[s].ctrInfo.containerid # 0

\* the peer has closed the connection: a close frame, or the end of the stream
PeerClosed(c) == c.peer \in {"closeFrame", "eof"}

\* the request of session s is one that validation rejects
ProfileRejected(s) ==
    Len(ss[s].req.profile) > 0 /\ ss[s].req.profile[1] \notin dockerProfiles
\* a port parameter that is not empty and is no number of the allowed range
PortRejected(s) ==
    /\ Len(ss[s].req.port) > 0
    /\ ss[s].req.port[1] # <<>>
    /\ \/ \E i \in 1..Len(ss[s].req.port[1]) : ss[s].req.port[1][i] \notin Digits
       \/ DecimalValue(ss[s].req.port[1]) \notin 36100..36110
ValidationFails(s) == ProfileRejected(s) \/ PortRejected(s)

\* the handler of session s has upgraded the connection and returned
Returned(s) == ss[s].pcUp = "returned" /\ ss[s].conn.open

(***************************************************************************)
(* C1.  For a session whose container was created, remove is invoked at    *)
(* most once with that container's id, whatever the interleaving of the    *)
(* two pumps and the handler.                                              *)
(***************************************************************************)
C1_RemoveAtMostOnce ==
    \A s \in Sessions : Created(s) => Cardinality(RemovesOf(s)) <= 1

(***************************************************************************)
(* C2.  Once the browser or the container has closed its connection of a   *)
(* streaming session, remove is eventually invoked with the session's      *)
(* container id, whichever side closed first and whatever the engine       *)
(* answers.                                                                *)
(***************************************************************************)
C2_RemoveEventually ==
    \A s \in StreamingSessions :
        (Streaming(s) /\ (PeerClosed(ss[s].conn) \/ PeerClosed(ss[s].cws)))
            ~> (RemovesOf(s) # {})

C2_Witness ==
    \E s \in Sessions :
        /\ Streaming(s)
        /\ PeerClosed(ss[s].cws)
        /\ ss[s].conn.peer = "failed"
        /\ \E i \in RemovesOf(s) : calls[i].res = "err"

(***************************************************************************)
(* C3.  When create succeeded and the attach dial failed, remove has been  *)
(* invoked with the created container's id by the time the handler         *)
(* returns.                                                                *)
(***************************************************************************)
C3_RemoveAfterAttachFailure ==
    \A s \in Sessions :
        (Returned(s) /\ \E i \in CallsOf(s, "attach") : calls[i].res = "err")
            => RemovesOf(s) # {}

(***************************************************************************)
(* C4.  When create and attach succeeded and start failed, remove has been *)
(* invoked with the created container's id by the time the handler         *)
(* returns.                                                                *)
(***************************************************************************)
C4_RemoveAfterStartFailure ==
    \A s \in Sessions :
        (Returned(s) /\ \E i \in CallsOf(s, "start") : calls[i].res = "err")
            => RemovesOf(s) # {}

(***************************************************************************)
(* C5.  A request that fails validation (unknown profile, port out of      *)
(* range, malformed port) never causes an engine call, and when its        *)
(* handler has returned the browser connection has received exactly one    *)
(* message, tagged stdout.                                                 *)
(***************************************************************************)
C5_ValidationFailure ==
    \A s \in Sessions :
        ValidationFails(s) =>
            /\ \A i \in 1..Len(calls) : calls[i].by # s
            /\ Len(ss[s].toBrowser) <= 1
            /\ Returned(s) => /\ Len(ss[s].toBrowser) = 1
                              /\ ss[s].toBrowser[1].Type = "stdout"
                              /\ ss[s].toBrowser[1].Data # <<>>

(***************************************************************************)
(* C6.  A request without a profile parameter is built like a request for  *)
(* the default profile: once startContainer has built the configurations,  *)
(* they are those of the same request with profile=default-docker.         *)
(***************************************************************************)
C6_NoProfileIsDefault ==
    \A s \in Sessions :
        (/\ ss[s].conn.open
         /\ ss[s].req.profile = <<>>
         /\ ss[s].pcUp \notin {"construct", "build"})
        => LET asDefault == buildConfigs(constructContainerInfo(
                               [ss[s].req EXCEPT !.profile = <<defaultDockerProfile>>]).info)
           IN  /\ asDefault.err = "nil" =>
                      ss[s].err # "creating container host config: "
                                      \o "seccomp config not found for profile"
               /\ asDefault.err = "nil" => ss[s].ctrCfg = asDefault.ctrCfg
               /\ asDefault.err = "nil" => ss[s].hostCfg = asDefault.hostCfg

(***************************************************************************)
(* C7.  The calls that establish a session are issued in the order         *)
(* inspect, pull, create, attach, start, each at most once; pull only      *)
(* after an inspect that reported the image absent; create only once the   *)
(* image is known to be present; start only after the attach connection    *)
(* was opened.  A session that streams has issued inspect, create, attach  *)
(* and start.                                                              *)
(***************************************************************************)
EstablishRank(verb) ==
    CASE verb = "inspect" -> 1 [] verb = "pull" -> 2 [] verb = "create" -> 3
      [] verb = "attach" -> 4 [] verb = "start" -> 5 [] OTHER -> 6

\* call j of the log was preceded by a call verb of the same session that
\* ended with res
Before(verb, res, j) ==
    \E i \in 1..(j - 1) :
        calls[i].by = calls[j].by /\ calls[i].verb = verb /\ calls[i].res = res

C7_EstablishOrder ==
    /\ \A j \in 1..Len(calls) :
          /\ EstablishRank(calls[j].verb) < 6 =>
                \A i \in 1..(j - 1) :
                    calls[i].by = calls[j].by =>
                        EstablishRank(calls[i].verb) < EstablishRank(calls[j].verb)
          /\ calls[j].verb = "pull" => Before("inspect", "notfound", j)
          /\ calls[j].verb = "create" =>
                Before("inspect", "ok", j) \/ Before("pull", "ok", j)
          /\ calls[j].verb = "attach" => Before("create", "ok", j)
          /\ calls[j].verb = "start" => Before("attach", "ok", j)
    /\ \A s \in Sessions :
          Streaming(s) =>
              /\ \E j \in CallsOf(s, "start") : calls[j].res = "ok"
              /\ ss[s].cws.open

C7_Witness ==
    \E s \in Sessions :
        /\ Streaming(s)
        /\ CallsOf(s, "pull") # {}
        /\ \E j \in CallsOf(s, "start") : calls[j].res = "ok"

(***************************************************************************)
(* C8.  Every engine call of a session goes to the engine endpoint that    *)
(* the session's userns flag selects.                                      *)
(***************************************************************************)
C8_OneEndpoint ==
    \A i \in 1..Len(calls) : calls[i].ep = client(ss[calls[i].by].ctrInfo.userns)

(***************************************************************************)
(* C9.  When a pump of a streaming session has detected termination and    *)
(* ended, both connections are closed: the container connection by the     *)
(* session, the browser connection by the session unless the browser has   *)
(* closed or lost it already.                                              *)
(***************************************************************************)
C9_TerminationClosesBoth ==
    \A s \in Sessions :
        (Streaming(s) /\ (ss[s].pcDown = "done" \/ ss[s].pcUp = "returned"))
            => /\ ss[s].cws.closed
               /\ ss[s].conn.closed \/ ss[s].conn.peer # "open"

(***************************************************************************)
(* C10.  The handler of a streaming session has not returned while the     *)
(* downstream pump is still running.                                       *)
(***************************************************************************)
C10_HandlerWaitsForPumps ==
    \A s \in Sessions :
        (Streaming(s) /\ ss[s].pcUp = "returned") => ss[s].pcDown = "done"

(***************************************************************************)
(* C11.  A read error that is no clean close ends the pump that observes   *)
(* it: a connection whose read has returned such an error is not read      *)
(* again.                                                                  *)
(***************************************************************************)
C11_ReadErrorEndsPump ==
    \A s \in Sessions :
        /\ ss[s].conn.readErr = "fail" => ~ss[s].conn.reread
        /\ ss[s].cws.readErr = "fail" => ~ss[s].cws.reread

(***************************************************************************)
(* C12.  The stdout frames that the browser has received are the messages  *)
(* read from the container connection, payload for payload and in the      *)
(* order they were read; while the browser is connected none is missing.   *)
(***************************************************************************)
\* the data frames that the browser has received
StdoutFrames(s) == SelectSeq(ss[s].toBrowser, LAMBDA m : m.Type # CloseMessage.Type)

\* the messages read from the container that downstream has finished with
OutputsHandled(s) ==
    IF ss[s].pcDown = "write" THEN ss[s].outputsRead - 1 ELSE ss[s].outputsRead

C12_DownstreamFidelity ==
    \A s \in Sessions :
        Streaming(s) =>
            /\ Len(StdoutFrames(s)) <= OutputsHandled(s)
            /\ \A i \in 1..Len(StdoutFrames(s)) :
                  StdoutFrames(s)[i] = StdoutMessage(ContainerOutput(i))
            /\ ss[s].conn.peer = "open" => Len(StdoutFrames(s)) = OutputsHandled(s)

(***************************************************************************)
(* C13.  A stdin frame with a payload is written to the container          *)
(* connection as that payload, after the payloads of the frames read       *)
(* before it (a connection that fails the write takes nothing); a stdin    *)
(* frame with an empty payload writes nothing and calls no engine verb.    *)
(***************************************************************************)
\* the position among the frames of the browser of the frame that carries p
StdinIndex(p) == CHOOSE k \in 1..Len(StdinPayloads) : StdinPayloads[k] = p

\* the container has received payloads of frames that were read, each once and
\* in the order of the frames
InArrivalOrder(s) ==
    LET tc == ss[s].toContainer
    IN  \A j \in 1..Len(tc) :
            /\ \E k \in 1..ss[s].framesRead : k <= Len(StdinPayloads) /\ tc[j] = StdinPayload(k)
            /\ \A i \in 1..(j - 1) : StdinIndex(tc[i]) < StdinIndex(tc[j])

\* the handler of session s dispatches a stdin frame in this step
StdinStep(s) ==
    /\ ss[s].pcUp = "dispatch"
    /\ ss[s].data.Type = "stdin"
    /\ ss'[s].pcUp # "dispatch"

\* the container connection took the write of this step
WriteAccepted(s) == ss[s].cws.writeErr = "none" /\ ss'[s].cws.writeErr = "none"

StdinEffect(s) ==
    LET payload == ss[s].data.Data
    IN  /\ calls' = calls
        /\ ss'[s].toBrowser = ss[s].toBrowser
        /\ IF Len(payload) = 0
           THEN ss'[s].toContainer = ss[s].toContainer /\ ss'[s].cws = ss[s].cws
           ELSE /\ WriteResults(ss[s].cws) = {"ok"} => WriteAccepted(s)
                /\ IF WriteAccepted(s)
                   THEN ss'[s].toContainer = Append(ss[s].toContainer, payload)
                   ELSE ss'[s].toContainer = ss[s].toContainer

C13_UpstreamRelay ==
    /\ [](\A s \in Sessions : InArrivalOrder(s))
    /\ [][\A s \in Sessions : StdinStep(s) => StdinEffect(s)]_vars

C13_Witness ==
    \E s \in Sessions :
        /\ ss[s].framesRead = 2
        /\ ss[s].toContainer = <<StdinPayload(1), StdinPayload(2)>>

(***************************************************************************)
(* C14.  A resize frame makes one ContainerResize call with the frame's    *)
(* height and width and the container id of the session, and writes to     *)
(* neither connection; the resize calls in the log are those of frames     *)
(* that were read, one for each frame.                                     *)
(***************************************************************************)
\* the handler of session s dispatches a resize frame in this step
ResizeStep(s) ==
    /\ ss[s].pcUp = "dispatch"
    /\ ss[s].data.Type = "resize"
    /\ ss'[s].pcUp # "dispatch"

ResizeEffect(s) ==
    /\ Len(calls') = Len(calls) + 1
    /\ SubSeq(calls', 1, Len(calls)) = calls
    /\ LET c == calls'[Len(calls')]
       IN  /\ c.verb = "resize" /\ c.by = s
           /\ c.height = ss[s].data.Height /\ c.width = ss[s].data.Width
           /\ c.cid = ss[s].ctrInfo.containerid
    /\ ss'[s].toBrowser = ss[s].toBrowser /\ ss'[s].toContainer = ss[s].toContainer
    /\ ss'[s].conn = ss[s].conn /\ ss'[s].cws = ss[s].cws

\* every resize call in the log carries the size of a frame that was read, and
\* no frame has two calls
ResizeCallsAreFrames ==
    \A j \in 1..Len(calls) :
        calls[j].verb = "resize" =>
            /\ \E k \in 1..ss[calls[j].by].framesRead :
                  \E f \in BrowserFrames(k) :
                      /\ f.Type = "resize"
                      /\ f.Height = calls[j].height /\ f.Width = calls[j].width
            /\ calls[j].cid = ss[calls[j].by].ctrInfo.containerid
            /\ \A i \in 1..(j - 1) :
                  calls[i].verb = "resize" /\ calls[i].by = calls[j].by
                      => calls[i].height < calls[j].height

C14_ResizeOneCall ==
    /\ []ResizeCallsAreFrames
    /\ [][\A s \in Sessions : ResizeStep(s) => ResizeEffect(s)]_vars

C14_Witness ==
    \E i, j \in 1..Len(calls) :
        /\ i < j
        /\ calls[i].verb = "resize" /\ calls[j].verb = "resize"
        /\ calls[i].height = 41 /\ calls[i].width = 121
        /\ calls[j].height = 42 /\ calls[j].width = 122
        /\ calls[i].res = "ok" /\ calls[j].res = "err"

(***************************************************************************)
(* Session establishment for a wide set of requests: the handler from the  *)
(* upgrade to the start of the container, for the properties of            *)
(* validatePort and of the configuration builders.                         *)
(***************************************************************************)
PortNumbers == {0, 80, 36099, 36100, 36105, 36110, 36111, 65535, 65536}
RangeEnds == {36100, 36105, 36111}

\* the values of the port parameter that are explored
PortStrings ==
    {<<>>, PortAbc, <<"-">>}
      \cup {FormatUint(n) : n \in PortNumbers}
      \cup {<<"0">> \o FormatUint(n) : n \in {36099, 36105}}
      \cup {<<"+">> \o Port36105, Port36105 \o <<" ">>, Port36105 \o TcpSuffix,
            Port36105 \o <<"-">>, <<"-">> \o Port36105}
      \cup {FormatUint(a) \o <<"-">> \o FormatUint(b) : a, b \in RangeEnds}
      \cup {Port36105 \o <<"-">> \o Port36105 \o <<"-">> \o Port80}

\* the values of the userns parameter, and of the selinux and apparmor
\* parameters, that are explored
UsernsValues == {<<>>, <<"enabled">>, <<"disabled">>, <<"Enabled">>, <<"">>,
                 <<"disabled", "enabled">>}
FlagValues == {<<>>, <<"disabled">>, <<"enabled">>, <<"">>}

SetupRequests ==
    {[NoRequest EXCEPT !.port = port, !.profile = profile, !.image = image,
                       !.userns = userns] :
        port \in {<<>>} \cup {<<p>> : p \in PortStrings},
        profile \in {<<>>, <<defaultDockerProfile>>, <<weakDockerProfile>>, <<"bogus">>},
        image \in {<<>>, <<"">>, <<"busybox">>},
        userns \in {<<>>, <<"enabled">>}}
      \cup
    {[WeakRequest EXCEPT !.userns = userns, !.selinux = selinux, !.apparmor = apparmor] :
        userns \in UsernsValues, selinux \in FlagValues, apparmor \in FlagValues}

InitSetup ==
    /\ \E q \in SetupRequests : ss = [s \in Sessions |-> IF s = 1 THEN NewSession(q)
                                                          ELSE IdleSession]
    /\ calls = <<>>
    /\ nextID = 1
    /\ responses = <<>>

\* profilesHandler up to its read loop
Setup(s) ==
    \/ Upgrade(s) \/ ConstructInfo(s) \/ BuildConfig(s) \/ ImageInspect(s)
    \/ ImagePull(s) \/ ContainerCreate(s) \/ Attach(s) \/ ContainerStart(s)
    \/ StartFailed(s)

NextSetup == \E s \in Sessions : Setup(s)

SetupSpec == InitSetup /\ [][NextSetup]_vars

(***************************************************************************)
(* C15.  validatePort accepts the empty string with no port; it accepts a  *)
(* string that is not empty exactly when the string is a port number       *)
(* between 36100 and 36110, and then returns that port; for every other    *)
(* string it returns an error and no port.                                 *)
(***************************************************************************)
\* a string that is a decimal number
IsNumber(str) == str # <<>> /\ \A i \in 1..Len(str) : str[i] \in Digits

\* session s has handed its port parameter to validatePort
PortValidated(s) == ss[s].pcUp \notin {"none", "upgrade", "construct"} /\ ss[s].conn.open

C15_ValidatePort ==
    \A s \in Sessions :
        PortValidated(s) =>
            LET portStr == ss[s].ctrInfo.port
                r == validatePort(portStr)
            IN  /\ portStr = <<>> => r = [port |-> <<>>, err |-> "nil"]
                /\ portStr # <<>> =>
                      /\ r.err = "nil" <=>
                            /\ IsNumber(portStr)
                            /\ DecimalValue(portStr) >= 36100
                            /\ DecimalValue(portStr) <= 36110
                      /\ r.err = "nil" => r.port = FormatUint(DecimalValue(portStr)) \o TcpSuffix
                      /\ r.err # "nil" => r.port = <<>>

(***************************************************************************)
(* C16.  A configuration built for the weak profile adds the capabilities  *)
(* NET_ADMIN, SYS_PTRACE and SYS_CHROOT, mounts /var/tmp/shared read-write *)
(* and names no user (the user of the image, root); one built for the      *)
(* default profile adds no capability, mounts nothing and names the user   *)
(* nobody; the port and the image of the request change none of this.      *)
(***************************************************************************)
\* startContainer of session s has built its two configurations
ConfigBuilt(s) ==
    ss[s].pcUp = "inspect" \/ \E i \in 1..Len(calls) : calls[i].by = s

C17_FixedLimits ==
    \A s \in Sessions :
        /\ ss[s].hostCfg.PidsLimit = 5
        /\ ss[s].hostCfg.NetworkMode = "default"

C17_Witness ==
    \E s \in Sessions :
        /\ CallsOf(s, "create") # {}
        /\ ss[s].hostCfg.PortBindings # {}
        /\ ss[s].hostCfg.CapAdd # <<>>
        /\ ss[s].hostCfg.Mounts # {}
        /\ ss[s].hostCfg.SecurityOpt # <<>>

(***************************************************************************)
(* C18.  When a session could not be established, or when an established   *)
(* session has lost its container, a browser that is still connected has   *)
(* received a stdout frame with a diagnostic.                              *)
(***************************************************************************)
\* a stdout frame that is no output of the container
IsDiagnostic(m) ==
    /\ m.Type = "stdout"
    /\ \A k \in 1..Len(ContainerOutputs) : m.Data # ToValidUTF8(ContainerOutputs[k])

HasDiagnostic(s) ==
    \E i \in 1..Len(ss[s].toBrowser) : IsDiagnostic(ss[s].toBrowser[i])

\* the handler returned before the session streamed
EstablishFailed(s) == Returned(s) /\ ~Streaming(s)

\* the stream of the container ended without a close frame, or broke, and the
\* downstream pump has dealt with the error of its read
StreamFailed(s) ==
    /\ Streaming(s)
    /\ \/ ss[s].cws.peer = "eof" /\ ss[s].cws.readErr = "close" /\ ss[s].pcDown = "done"
       \/ ss[s].cws.peer = "failed" /\ ss[s].cws.readErr = "fail" /\ ss[s].cws.reread

C18_FailureDiagnostic ==
    \A s \in Sessions :
        (EstablishFailed(s) \/ StreamFailed(s)) /\ ss[s].conn.peer = "open"
            => HasDiagnostic(s)

(***************************************************************************)
(* C19.  When the handler has returned from a request with an unknown      *)
(* profile, the browser has received one frame, a stdout diagnostic, its   *)
(* connection has been closed by the handler, and ContainerCreate was not  *)
(* called.                                                                 *)
(***************************************************************************)
C19_UnknownProfileCloses ==
    \A s \in Sessions :
        ProfileRejected(s) /\ Returned(s) =>
            /\ Len(ss[s].toBrowser) = 1
            /\ IsDiagnostic(ss[s].toBrowser[1])
            /\ CallsOf(s, "create") = {}
            /\ ss[s].conn.closed

(***************************************************************************)
(* C20.  ImagePull is called exactly when the inspect of the image         *)
(* answered that the image is absent; after an inspect that failed         *)
(* otherwise, or a pull that failed, the session makes no further engine   *)
(* call; ContainerCreate follows an inspect that found the image or a      *)
(* pull that succeeded.                                                    *)
(***************************************************************************)
\* the engine calls of session s, in order
SessionLog(s) == SelectSeq(calls, LAMBDA c : c.by = s)

C20_PullWhenAbsent ==
    \A s \in Sessions :
        LET log == SessionLog(s)
        IN  \A j \in 1..Len(log) :
                /\ log[j].verb = "pull" =>
                      j > 1 /\ log[j - 1].verb = "inspect" /\ log[j - 1].res = "notfound"
                /\ log[j].verb = "inspect" /\ log[j].res = "notfound" =>
                      IF j < Len(log) THEN log[j + 1].verb = "pull"
                      ELSE ss[s].pcUp = "pull"
                /\ log[j].verb \in {"inspect", "pull"} /\ log[j].res = "err" =>
                      j = Len(log) /\ ss[s].pcUp \in {"failed", "returned"}
                /\ log[j].verb = "create" =>
                      /\ j > 1
                      /\ log[j - 1].verb \in {"inspect", "pull"}
                      /\ log[j - 1].res = "ok"

C20_Witness ==
    \E s \in Sessions :
        /\ Len(SessionLog(s)) >= 3
        /\ SessionLog(s)[1].verb = "inspect" /\ SessionLog(s)[1].res = "notfound"
        /\ SessionLog(s)[2].verb = "pull" /\ SessionLog(s)[2].res = "ok"
        /\ SessionLog(s)[3].verb = "create"

(***************************************************************************)
(* Two sessions at once: a request for the namespaced engine and one for   *)
(* the standard engine, handled by two goroutines of the HTTP server.      *)
(* The engines answer every call of the establishment with success, and    *)
(* each browser sends MaxFramesEach frames (stdin with a payload, or       *)
(* resize) and then closes.                                                *)
(***************************************************************************)
MaxFramesEach == 1

InitTwo ==
    /\ ss = [s \in Sessions |-> IF s = 1 THEN NewSession(UserNSRequest)
                                ELSE NewSession(DefaultRequest)]
    /\ calls = <<>>
    /\ nextID = 1
    /\ responses = <<>>

\* what the browser of session s does
BrowserScenario(s) ==
    /\ ss[s].framesRead <= MaxFramesEach
    /\ ss[s].conn.peer \in {"open", "closeFrame"}
    /\ ss[s].pcUp = "dispatch" =>
          \/ ss[s].data.Type = "resize"
          \/ ss[s].data.Type = "stdin" /\ ss[s].data.Data # <<>>
    /\ ss[s].pcUp = "read" =>
          ss[s].framesRead = Len(ss[s].toContainer) + Cardinality(CallsOf(s, "resize"))

\* what the engines do
EngineScenario ==
    \A i \in 1..Len(calls) :
        calls[i].verb \in {"inspect", "create", "attach", "start"} => calls[i].res = "ok"

\* a step stays within the scenario
WithinScenario ==
    /\ EngineScenario'
    /\ \A s \in Sessions :
          /\ BrowserScenario(s)'
          /\ ss[s].pcUp = "upgrade" => ss'[s].pcUp # "returned"

HandlerOfTwo(s) ==
    \/ Upgrade(s) \/ ConstructInfo(s) \/ BuildConfig(s) \/ ImageInspect(s)
    \/ ContainerCreate(s) \/ Attach(s) \/ ContainerStart(s)
    \/ UpRead(s) \/ UpStdin(s) \/ UpResize(s) \/ UpRemoveOnClose(s)
    \/ UpRemoveAfterLoop(s)

NextTwo ==
    \E s \in Sessions :
        \/ Upgrade(s) /\ WithinScenario
        \/ ConstructInfo(s) /\ WithinScenario
        \/ BuildConfig(s) /\ WithinScenario
        \/ ImageInspect(s) /\ WithinScenario
        \/ ContainerCreate(s) /\ WithinScenario
        \/ Attach(s) /\ WithinScenario
        \/ ContainerStart(s) /\ WithinScenario
        \/ UpRead(s) /\ WithinScenario
        \/ UpStdin(s) /\ WithinScenario
        \/ UpResize(s) /\ WithinScenario
        \/ UpRemoveOnClose(s) /\ WithinScenario
        \/ UpRemoveAfterLoop(s) /\ WithinScenario
        \/ BrowserPeer(s) /\ WithinScenario

TwoSpec == InitTwo /\ [][NextTwo]_vars

(***************************************************************************)
(* C21.  Every attach, start, resize and remove call of a session carries  *)
(* the container id that the create call of that session returned; two     *)
(* sessions never hold the same container id; and a step of one session    *)
(* leaves the state of every other session as it was (its container id,    *)
(* profile, endpoint, connections and what they carried).                  *)
(***************************************************************************)
CallsCarryOwnID ==
    \A j \in 1..Len(calls) :
        calls[j].verb \in {"attach", "start", "resize", "remove"} =>
            \E i \in 1..(j - 1) :
                /\ calls[i].verb = "create" /\ calls[i].res = "ok"
                /\ calls[i].by = calls[j].by
                /\ calls[i].cid = calls[j].cid

DistinctIDs ==
    \A s, t \in Sessions :
        s # t /\ Created(s) /\ Created(t)
            => ss[s].ctrInfo.containerid # ss[t].ctrInfo.containerid

\* the steps of session s
StepOf(s) == HandlerOfTwo(s) \/ BrowserPeer(s)

InfoConstructed(s) ==
    /\ ss[s].pcUp \notin {"none", "upgrade", "construct"}
    /\ ss[s].conn.open
    /\ ~ProfileRejected(s)

UsernsRequested(s) == Len(ss[s].req.userns) > 0 /\ ss[s].req.userns[1] = "enabled"

C22_EndpointSelection ==
    \A s \in Sessions :
        InfoConstructed(s) =>
            /\ ss[s].ctrInfo.userns <=> UsernsRequested(s)
            /\ \A i \in 1..Len(calls) :
                  calls[i].by = s /\ calls[i].verb # "resize" =>
                      calls[i].ep = IF UsernsRequested(s) THEN "dUserNSCli" ELSE "dcli"

C22_Witness ==
    \E s \in Sessions :
        /\ ss[s].req.userns = <<"enabled">>
        /\ \E i \in 1..Len(calls) :
              calls[i].by = s /\ calls[i].verb = "attach" /\ calls[i].ep = "dUserNSCli"

(***************************************************************************)
(* C23.  The selinux flag and the apparmor flag of a session are false     *)
(* exactly when their parameter is present with the value disabled, and    *)
(* true otherwise, also when the parameter is absent.                      *)
(***************************************************************************)
FlagDisabled(param) == Len(param) > 0 /\ param[1] = "disabled"

C23_FlagsDefaultEnabled ==
    \A s \in Sessions :
        InfoConstructed(s) =>
            /\ ss[s].ctrInfo.selinux <=> ~FlagDisabled(ss[s].req.selinux)
            /\ ss[s].ctrInfo.apparmor <=> ~FlagDisabled(ss[s].req.apparmor)

(***************************************************************************)
(* The plain HTTP endpoints: /ping, /info and /info-userns.                *)
(*                                                                         *)
(* An http.ResponseWriter keeps the first status that is written; a write  *)
(* of the body before any status writes 200; headers set after the status  *)
(* are not sent; a handler that returns without writing anything answers   *)
(* 200.  status = 0 is a response whose status is not written yet.         *)
(***************************************************************************)
MaxRequests == 2

Methods == {"GET", "POST", "HEAD", "DELETE", "get"}

NewResponse == [status |-> 0, headers |-> {}, body |-> <<>>]

WriteHeader(w, code) == IF w.status = 0 THEN [w EXCEPT !.status = code] ELSE w

SetHeader(w, key, value) ==
    IF w.status = 0 THEN [w EXCEPT !.headers = @ \cup {<<key, value>>}] ELSE w

Write(w, data) == [WriteHeader(w, 200) EXCEPT !.body = @ \o data]

\* the handler has returned: the server sends what was written
Finish(w) == WriteHeader(w, 200)

\* pingHandler without the test of the method
pingHandlerAnyMethod(method) ==
    Write(WriteHeader(NewResponse, 200), Text("pong"))

pingHandler(method) ==
    IF method # "GET" THEN WriteHeader(NewResponse, 404)
    ELSE Write(WriteHeader(NewResponse, 200), Text("pong"))

\* client.Info: what the daemon behind the client cli says of itself
DaemonInfo(cli) == [ID |-> cli, Containers |-> 0]

\* json.MarshalIndent(info, "", "  ")
MarshalIndent(info) ==
    <<"{", "\n", "  ", "\"ID\":", " ", info.ID, ",", "\n",
      "  ", "\"Containers\":", " ", "0", "\n", "}">>

\* the answers of the engine and of the encoder that are explored
InfoResults == {"ok", "info failed", "marshal failed"}

\* retrieveInfo that writes the status before it asks the engine
retrieveInfoStatusFirst(w, cli, res) ==
    LET w1 == WriteHeader(SetHeader(w, "Content-Type", "application/json"), 200)
    IN  IF res = "info failed"
        THEN [w |-> w1, err |-> "getting docker info failed"]
        ELSE IF res = "marshal failed"
             THEN [w |-> w1, err |-> "marshal indent info failed"]
             ELSE [w |-> Write(w1, MarshalIndent(DaemonInfo(cli))), err |-> "nil"]

retrieveInfo(w, cli, res) ==
    IF res = "info failed" THEN [w |-> w, err |-> "getting docker info failed"]
    ELSE IF res = "marshal failed" THEN [w |-> w, err |-> "marshal indent info failed"]
    ELSE [w |-> Write(WriteHeader(SetHeader(w, "Content-Type", "application/json"), 200),
                      MarshalIndent(DaemonInfo(cli))),
          err |-> "nil"]

\* infoHandler (cli = "dcli") and infoUserNSHandler (cli = "dUserNSCli")
infoHandlerOf(method, cli, res) ==
    IF method # "GET" THEN WriteHeader(NewResponse, 404)
    ELSE LET r == retrieveInfo(NewResponse, cli, res)
         IN  IF r.err # "nil" THEN WriteHeader(r.w, 500) ELSE r.w

\* an exchange as the log keeps it; res is the answer of the engine when it
\* was asked
Exchange(path, method, res, w) ==
    [path |-> path, method |-> method,
     res |-> IF method = "GET" THEN res ELSE "", w |-> Finish(w)]

InitHttp ==
    /\ ss = [s \in Sessions |-> IdleSession]
    /\ calls = <<>>
    /\ nextID = 1
    /\ responses = <<>>

PingRequest ==
    /\ Len(responses) < MaxRequests
    /\ \E method \in Methods :
          responses' = Append(responses, Exchange("/ping", method, "", pingHandler(method)))
    /\ UNCHANGED <<ss, calls, nextID>>

InfoRequest ==
    /\ Len(responses) < MaxRequests
    /\ \E method \in Methods, res \in InfoResults :
          responses' = Append(responses,
                          Exchange("/info", method, res, infoHandlerOf(method, "dcli", res)))
    /\ UNCHANGED <<ss, calls, nextID>>

InfoUserNSRequest ==
    /\ Len(responses) < MaxRequests
    /\ \E method \in Methods, res \in InfoResults :
          responses' = Append(responses,
                          Exchange("/info-userns", method, res,
                                   infoHandlerOf(method, "dUserNSCli", res)))
    /\ UNCHANGED <<ss, calls, nextID>>

NextHttp == PingRequest \/ InfoRequest \/ InfoUserNSRequest

HttpSpec == InitHttp /\ [][NextHttp]_vars

(***************************************************************************)
(* C24.  /ping answers a GET with status 200 and the body pong, and a      *)
(* request with any other method with status 404 and an empty body.        *)
(***************************************************************************)
C24_Ping ==
    \A i \in 1..Len(responses) :
        responses[i].path = "/ping" =>
            IF responses[i].method = "GET"
            THEN responses[i].w.status = 200 /\ responses[i].w.body = <<"pong">>
            ELSE responses[i].w.status = 404 /\ responses[i].w.body = <<>>

C24_Witness ==
    \E i, j \in 1..Len(responses) :
        /\ responses[i].path = "/ping" /\ responses[i].method = "GET"
        /\ responses[i].w.status = 200
        /\ responses[j].path = "/ping" /\ responses[j].method = "POST"
        /\ responses[j].w.status = 404

(***************************************************************************)
(* C25.  /info and /info-userns answer a GET with status 200 and the info  *)
(* of the standard and of the namespaced daemon; when the info cannot be   *)
(* had the status is 500 and nothing else was written.                     *)
(***************************************************************************)
\* the daemon that the endpoint of a path reports on
DaemonOf(path) == IF path = "/info-userns" THEN "dUserNSCli" ELSE "dcli"

C25_Info ==
    \A i \in 1..Len(responses) :
        responses[i].path \in {"/info", "/info-userns"} /\ responses[i].method = "GET" =>
            IF responses[i].res = "ok"
            THEN /\ responses[i].w.status = 200
                 /\ responses[i].w.body
                       = MarshalIndent(DaemonInfo(DaemonOf(responses[i].path)))
            ELSE /\ responses[i].w.status = 500
                 /\ responses[i].w.body = <<>>

C25_Witness ==
    \E i, j \in 1..Len(responses) :
        /\ responses[i].path = "/info-userns" /\ responses[i].method = "GET"
        /\ responses[i].res = "ok" /\ responses[i].w.status = 200
        /\ responses[j].path = "/info" /\ responses[j].method = "GET"
        /\ responses[j].res = "info failed" /\ responses[j].w.status = 500

(***************************************************************************)
(* C26.  A relay write that fails with the close-sent error ends the pump  *)
(* that attempted it: the pump calls remove, and with that step it leaves  *)
(* its loop.                                                               *)
(***************************************************************************)
\* the step of session s appends a remove call of s to the engine log
RemoveCalled(s) ==
    /\ Len(calls') = Len(calls) + 1
    /\ calls'[Len(calls')].verb = "remove"
    /\ calls'[Len(calls')].by = s

\* the positions of a pump inside its loop
UpInLoop(pc) == pc \in {"read", "dispatch", "removeOnCloseSent"}
DownInLoop(pc) == pc \in {"read", "write", "removeOnCloseSent"}

\* downstream: the write to the browser connection returned ErrCloseSent
DownCloseSentEnds(s) ==
    /\ (/\ ss[s].pcDown = "write" /\ ss'[s].pcDown # "write"
        /\ ss[s].conn.writeErr = "closeSent")
           => ss'[s].pcDown = "removeOnCloseSent"
    /\ (ss[s].pcDown = "removeOnCloseSent" /\ ss'[s].pcDown # "removeOnCloseSent")
           => RemoveCalled(s) /\ ~DownInLoop(ss'[s].pcDown)

\* upstream: the write to the container connection returned ErrCloseSent
UpCloseSentEnds(s) ==
    /\ (/\ ss[s].pcUp = "dispatch" /\ ss'[s].pcUp # "dispatch"
        /\ ss[s].data.Type = "stdin" /\ Len(ss[s].data.Data) > 0
        /\ ss[s].cws.writeErr = "closeSent")
           => ss'[s].pcUp = "removeOnCloseSent"
    /\ (ss[s].pcUp = "removeOnCloseSent" /\ ss'[s].pcUp # "removeOnCloseSent")
           => RemoveCalled(s) /\ ~UpInLoop(ss'[s].pcUp)

C26_CloseSentEndsPump ==
    [][\A s \in Sessions : DownCloseSentEnds(s) /\ UpCloseSentEnds(s)]_vars

(***************************************************************************)
(* C27.  Removed is terminal: once remove has been called for the          *)
(* container of a session, the session makes no further engine call and    *)
(* forwards no further stdin payload to the container connection.          *)
(***************************************************************************)
\* the step appends an engine call of session s
EngineCalled(s) ==
    /\ Len(calls') = Len(calls) + 1
    /\ calls'[Len(calls')].by = s

C27_RemovedIsTerminal ==
    [][\A s \in Sessions :
           RemovesOf(s) # {} =>
               /\ ~EngineCalled(s)
               /\ ss'[s].toContainer = ss[s].toContainer]_vars

(***************************************************************************)
(* C28.  A frame of the browser whose type is neither stdin nor resize     *)
(* changes nothing: nothing is written to either connection, no engine     *)
(* call is made, and the handler is at its read again.                     *)
(***************************************************************************)
\* the handler of session s dispatches a frame of another type in this step
UnknownStep(s) ==
    /\ ss[s].pcUp = "dispatch"
    /\ ss[s].data.Type \notin {"stdin", "resize"}
    /\ ss'[s].pcUp # "dispatch"

UnknownEffect(s) ==
    /\ calls' = calls
    /\ ss'[s].toContainer = ss[s].toContainer
    /\ ss'[s].toBrowser = ss[s].toBrowser
    /\ ss'[s].conn = ss[s].conn
    /\ ss'[s].cws = ss[s].cws
    /\ ss'[s].pcDown = ss[s].pcDown
    /\ ss'[s].pcUp = "read"

C28_UnknownFrameIgnored ==
    [][\A s \in Sessions : UnknownStep(s) => UnknownEffect(s)]_vars

\* an unknown frame is dispatched after a stdin frame was relayed, and the
\* connections are such that the next frame can be read
C28_Witness ==
    \E s \in Sessions :
        /\ ss[s].pcUp = "dispatch"
        /\ ss[s].data.Type = "ping"
        /\ Len(ss[s].toContainer) = 1
        /\ ReadResult(ss[s].conn) = "msg"
        /\ ss[s].pcDown = "read"

(***************************************************************************)
(* C29.  A failed ContainerResize call is not fatal: the step makes no     *)
(* other engine call, leaves both connections, both relay logs and the     *)
(* downstream pump as they were, and the handler is at its read again, as  *)
(* after a resize that succeeded.                                          *)
(***************************************************************************)
\* the resize call of this step failed
ResizeFailedStep(s) ==
    /\ ResizeStep(s)
    /\ Len(calls') = Len(calls) + 1
    /\ calls'[Len(calls')].res = "err"

ResizeFailedEffect(s) ==
    /\ SubSeq(calls', 1, Len(calls)) = calls
    /\ calls'[Len(calls')].verb = "resize"
    /\ ss'[s] = [ss[s] EXCEPT !.pcUp = "read", !.data = NoMessage]

C29_ResizeFailureNotFatal ==
    [][\A s \in Sessions : ResizeFailedStep(s) => ResizeFailedEffect(s)]_vars

\* the resize of the first frame failed; the stdin payload of the second frame
\* reached the container, output of the container reached the browser, both
\* connections are open and no remove was called
C29_Witness ==
    \E s \in Sessions :
        /\ \E i \in CallsOf(s, "resize") : calls[i].res = "err" /\ calls[i].height = 41
        /\ CallsOf(s, "remove") = {}
        /\ ss[s].toContainer = <<StdinPayload(2)>>
        /\ Len(ss[s].toBrowser) = MaxOutput
        /\ ~ss[s].conn.closed /\ ~ss[s].cws.closed
        /\ ss[s].conn.writeErr = "none" /\ ss[s].cws.writeErr = "none"

(***************************************************************************)
(* C30.  The result of removeContainer is only logged: a step that calls   *)
(* remove writes nothing to the browser, and the task that called it goes  *)
(* on to the place the code sends it whether the call failed or not.       *)
(***************************************************************************)
\* where the task that has called remove goes on, from each of the five calls
\* of profilesHandler; the result of the call is no input
AfterRemove(r) ==
    (IF r.pcUp = "removeOnClose" THEN {[r EXCEPT !.pcUp = "removeAfterLoop"]} ELSE {})
    \cup (IF r.pcUp = "removeAfterLoop"
          THEN {[r EXCEPT !.pcUp = "returned", !.cws.closed = TRUE]} ELSE {})
    \cup (IF r.pcUp = "removeOnCloseSent" THEN {[r EXCEPT !.pcUp = "read"]} ELSE {})
    \cup (IF r.pcDown = "removeOnClose" THEN {[r EXCEPT !.pcDown = "closeBrowser"]} ELSE {})
    \cup (IF r.pcDown = "removeOnCloseSent" THEN {DownExit(r)} ELSE {})

C30_RemoveErrorIgnored ==
    [][\A s \in Sessions :
           RemoveCalled(s) =>
               /\ ss'[s].toBrowser = ss[s].toBrowser
               /\ ss'[s].conn = ss[s].conn
               /\ ss'[s] \in AfterRemove(ss[s])]_vars

\* the first remove of a session failed, no diagnostic reached the browser,
\* and both tasks have come to their end
C30_Witness ==
    \E s \in Sessions :
        /\ \E i \in CallsOf(s, "remove") :
               /\ calls[i].res = "err"
               /\ \A j \in CallsOf(s, "remove") : i <= j
        /\ ~HasDiagnostic(s)
        /\ ss[s].pcUp = "returned"
        /\ ss[s].pcDown = "done"

(***************************************************************************)
(* The option functions one by one: NewContainerConfig and                 *)
(* NewContainerHostConfig called with their options in any order.  ctrOpts *)
(* and hostOpts of a session are the options that the two loops have not   *)
(* applied yet.                                                            *)
(***************************************************************************)
\* the options that startContainer passes, in the order of the code
ContainerOptionsOf(info) ==
    <<[name |-> "withPort", arg |-> validatePort(info.port).port],
      [name |-> "withDockerImage", arg |-> info.dockerImage],
      [name |-> "withDockerUser", arg |-> info.dockerProfile]>>

HostOptionsOf(info) ==
    <<[name |-> "withExposedPort", arg |-> validatePort(info.port).port],
      [name |-> "withSecurityOptions", arg |-> info.dockerProfile],
      [name |-> "withHostVolumes", arg |-> info.dockerProfile],
      [name |-> "withCapabilities", arg |-> info.dockerProfile]>>

\* the orders in which a list of options can be passed
Orders(opts) ==
    {[i \in 1..Len(opts) |-> opts[p[i]]] : p \in Permutations(1..Len(opts))}

\* the container infos explored: ports that validatePort accepts, the image
\* given or not, the profiles that constructContainerInfo lets through
OptionInfos ==
    {[EmptyInfo EXCEPT !.port = port, !.dockerImage = image, !.dockerProfile = profile] :
        port \in {<<>>, Port36105},
        image \in {"", "busybox"},
        profile \in {"", defaultDockerProfile, weakDockerProfile}}

InitOptions ==
    /\ \E info \in OptionInfos :
         \E co \in Orders(ContainerOptionsOf(info)), ho \in Orders(HostOptionsOf(info)) :
            ss = [s \in Sessions |->
                    IF s = 1
                    THEN [IdleSession EXCEPT !.pcUp = "options", !.ctrInfo = info,
                                             !.ctrOpts = co, !.hostOpts = ho]
                    ELSE IdleSession]
    /\ calls = <<>>
    /\ nextID = 1
    /\ responses = <<>>

\* one turn of the loop of NewContainerConfig
NextContainerOption(s) ==
    /\ ss[s].pcUp = "options"
    /\ ss[s].ctrOpts # <<>>
    /\ Set(s, [ss[s] EXCEPT
                 !.ctrCfg = ApplyContainerOption(Head(ss[s].ctrOpts), @),
                 !.ctrOpts = Tail(@)])
    /\ UNCHANGED <<calls, nextID, responses>>

\* one turn of the loop of NewContainerHostConfig; an option that fails ends
\* the loop, and the caller gets no configuration
NextHostOption(s) ==
    /\ ss[s].pcUp = "options"
    /\ ss[s].ctrOpts = <<>>
    /\ ss[s].hostOpts # <<>>
    /\ LET r == ApplyHostOption(Head(ss[s].hostOpts), ss[s].hostCfg)
       IN  IF r.err # "nil"
           THEN Set(s, [ss[s] EXCEPT !.hostCfg = BaseHostConfig, !.hostOpts = <<>>,
                                     !.err = r.err])
           ELSE Set(s, [ss[s] EXCEPT !.hostCfg = r.cfg, !.hostOpts = Tail(@)])
    /\ UNCHANGED <<calls, nextID, responses>>

NextOptions == \E s \in Sessions : NextContainerOption(s) \/ NextHostOption(s)

OptionsSpec == InitOptions /\ [][NextOptions]_vars

(***************************************************************************)
(* C31.  The option functions write disjoint fields: each one changes      *)
(* only its own field, none changes a field of the base configuration,     *)
(* and the options applied in any order give the configurations that the   *)
(* order of the code gives.                                                *)
(***************************************************************************)
\* the field that an option is there to set
FieldOf(name) ==
    CASE name = "withPort" -> "ExposedPorts"
      [] name = "withDockerImage" -> "Image"
      [] name = "withDockerUser" -> "User"
      [] name = "withExposedPort" -> "PortBindings"
      [] name = "withSecurityOptions" -> "SecurityOpt"
      [] name = "withHostVolumes" -> "Mounts"
      [] name = "withCapabilities" -> "CapAdd"

ContainerBaseFields ==
    {"Cmd", "Tty", "AttachStdin", "AttachStdout", "AttachStderr", "OpenStdin", "StdinOnce"}
HostBaseFields == {"NetworkMode", "LogType", "PidsLimit"}

BaseFieldsKept(s) ==
    /\ \A f \in ContainerBaseFields : ss[s].ctrCfg[f] = BaseContainerConfig[f]
    /\ \A f \in HostBaseFields : ss[s].hostCfg[f] = BaseHostConfig[f]

\* both loops have ended
OptionsApplied(s) ==
    ss[s].pcUp = "options" /\ ss[s].ctrOpts = <<>> /\ ss[s].hostOpts = <<>>

SameAsCodeOrder(s) ==
    LET b == buildConfigs(ss[s].ctrInfo)
    IN  /\ ss[s].ctrCfg = b.ctrCfg
        /\ ss[s].hostCfg = b.hostCfg
        /\ (ss[s].err = "nil") = (b.err = "nil")

OwnFieldOnly(s) ==
    /\ ss'[s].ctrOpts # ss[s].ctrOpts =>
          \A f \in DOMAIN ss[s].ctrCfg \ {FieldOf(Head(ss[s].ctrOpts).name)} :
              ss'[s].ctrCfg[f] = ss[s].ctrCfg[f]
    /\ (ss'[s].hostOpts # ss[s].hostOpts /\ ss'[s].err = "nil") =>
          \A f \in DOMAIN ss[s].hostCfg \ {FieldOf(Head(ss[s].hostOpts).name)} :
              ss'[s].hostCfg[f] = ss[s].hostCfg[f]

C31_OptionsCommute ==
    /\ [](\A s \in Sessions :
             ss[s].pcUp = "options" =>
                 /\ BaseFieldsKept(s)
                 /\ OptionsApplied(s) => SameAsCodeOrder(s))
    /\ [][\A s \in Sessions : ss[s].pcUp = "options" => OwnFieldOnly(s)]_vars

\* the seven options of a weak-profile session with a port and an image have
\* been applied, in one of the orders, and every one has set its field
C31_Witness ==
    \E s \in Sessions :
        /\ OptionsApplied(s)
        /\ ss[s].err = "nil"
        /\ ss[s].ctrInfo.dockerProfile = weakDockerProfile
        /\ ss[s].hostCfg.CapAdd # <<>> /\ ss[s].hostCfg.Mounts # {}
        /\ ss[s].hostCfg.PortBindings # {} /\ ss[s].ctrCfg.ExposedPorts # {}
        /\ ss[s].ctrCfg.Image = "busybox"

(***************************************************************************)
(* C32.  No retries: a session calls each of pull, create, attach and      *)
(* start at most once, and after the first of its calls that failed it     *)
(* makes no pull, create, attach or start call.                            *)
(***************************************************************************)
EstablishVerbs == {"pull", "create", "attach", "start"}

\* a call whose result ends startContainer with an error; an inspect that
\* finds no image is an answer, not a failure
CallFailed(c) == c.verb \in EstablishVerbs \cup {"inspect"} /\ c.res = "err"

C32_NoRetries ==
    \A s \in Sessions :
        /\ \A verb \in EstablishVerbs : Cardinality(CallsOf(s, verb)) <= 1
        /\ \A i \in 1..Len(calls) :
              (calls[i].by = s /\ CallFailed(calls[i])) =>
                  \A j \in (i + 1)..Len(calls) :
                      calls[j].by = s => calls[j].verb \notin EstablishVerbs

\* the image was absent and pulled, the container created and attached, the
\* start failed, and the handler has returned
C32_Witness ==
    \E s \in Sessions :
        /\ ss[s].pcUp = "returned"
        /\ \E i \in CallsOf(s, "pull") : calls[i].res = "ok"
        /\ \E i \in CallsOf(s, "attach") : calls[i].res = "ok"
        /\ \E i \in CallsOf(s, "start") : calls[i].res = "err"

(***************************************************************************)
(* C33.  Every profile name that constructContainerInfo accepts has its    *)
(* seccomp document.  A session whose profile has none ends with the       *)
(* error of the configuration building and makes no engine call; every     *)
(* container is created with no-new-privileges and the compacted seccomp   *)
(* document of its profile.                                                *)
(***************************************************************************)
\* the profile of session s has no seccomp document, and startContainer has
\* been through the building of the configurations
BuiltWithoutDocument(s) ==
    /\ InfoConstructed(s)
    /\ ss[s].pcUp # "build"
    /\ validatePort(ss[s].ctrInfo.port).err = "nil"
    /\ ss[s].ctrInfo.dockerProfile \notin DOMAIN seccompConfigs

SecurityOptOf(profile) ==
    <<<<"no-new-privileges">>, <<"seccomp=">> \o JsonCompact(seccompConfigs[profile])>>

RequestedImage(s) ==
    IF Len(ss[s].req.image) > 0 /\ ss[s].req.image[1] # ""
    THEN ss[s].req.image[1] ELSE defaultDockerImage

C34_OneImage ==
    \A s \in Sessions :
        \A i \in 1..Len(calls) :
            (calls[i].by = s /\ calls[i].verb \in {"inspect", "pull", "create"}) =>
                /\ calls[i].image = ss[s].ctrCfg.Image
                /\ ss[s].ctrCfg.Image = RequestedImage(s)

\* a request without an image: the default image was inspected, pulled and
\* named in the configuration of the create call
C34_Witness ==
    \E s \in Sessions :
        /\ ss[s].req.image = <<>>
        /\ \E i \in CallsOf(s, "pull") : calls[i].image = defaultDockerImage
        /\ \E i \in CallsOf(s, "create") : calls[i].res = "ok"
        /\ ss[s].ctrCfg.Image = defaultDockerImage

(***************************************************************************)
(* C35.  One writer for each connection.  The handler writes to the        *)
(* browser connection only before it starts the downstream goroutine, and  *)
(* returns after that write; once the session streams, only the            *)
(* downstream goroutine writes to the browser connection and only the      *)
(* handler writes to the container connection.                             *)
(***************************************************************************)
\* the places where the handler, and the goroutine, call a write method of
\* the browser connection
HandlerWritesBrowser(s) ==
    \/ ss[s].pcUp = "construct" /\ constructContainerInfo(ss[s].req).err # "nil"
    \/ ss[s].pcUp = "failed"
DownstreamWritesBrowser(s) == ss[s].pcDown \in {"write", "closeBrowser"}

\* the step is one of the handler, or one of the goroutine
ByHandler(s) == ss'[s].pcUp # ss[s].pcUp /\ ss'[s].pcDown \in {ss[s].pcDown, "read"}
ByDownstream(s) == ss'[s].pcDown # ss[s].pcDown /\ ss'[s].pcUp = ss[s].pcUp

\* a write method of the connection was called with a message in this step
BrowserWritten(s) ==
    \/ ss'[s].toBrowser # ss[s].toBrowser
    \/ ss'[s].conn.writeErr = "fail" /\ ss[s].conn.writeErr = "none"
ContainerWritten(s) ==
    \/ ss'[s].toContainer # ss[s].toContainer
    \/ ss'[s].cws.writeErr = "fail" /\ ss[s].cws.writeErr = "none"

SingleWriterStep(s) ==
    /\ BrowserWritten(s) =>
          \/ ByDownstream(s) /\ DownstreamWritesBrowser(s)
          \/ /\ ByHandler(s) /\ HandlerWritesBrowser(s)
             /\ ~Streaming(s) /\ ss'[s].pcUp = "returned" /\ ~Streaming(s)'
    /\ ContainerWritten(s) =>
          /\ ByHandler(s) /\ Streaming(s)
          /\ ss[s].pcUp = "dispatch" /\ ss[s].data.Type = "stdin"

C35_SingleWriter ==
    /\ [](\A s \in Sessions : ~(HandlerWritesBrowser(s) /\ Streaming(s)))
    /\ [][\A s \in Sessions : SingleWriterStep(s)]_vars

\* both tasks are at a write, each on its connection, and each has written
\* before
C35_Witness ==
    \E s \in Sessions :
        /\ ss[s].pcUp = "dispatch" /\ ss[s].data.Type = "stdin" /\ ss[s].data.Data # <<>>
        /\ ss[s].pcDown = "write"
        /\ ss[s].toBrowser # <<>> /\ ss[s].toContainer # <<>>

(***************************************************************************)
(* C36.  When the read of the container connection returns a close, the    *)
(* downstream goroutine calls remove, then writes the close message of a   *)
(* normal closure to the browser connection, and ends: no frame follows    *)
(* the close message on the browser connection.                            *)
(***************************************************************************)
\* the three steps of the goroutine from the read that returned the close
ContainerCloseSteps(s) ==
    /\ (/\ ss[s].pcDown = "read" /\ ss'[s].pcDown # "read"
        /\ ReadResult(ss[s].cws) = "close")
           => /\ ss'[s].pcDown = "removeOnClose"
              /\ calls' = calls /\ ss'[s].toBrowser = ss[s].toBrowser
    /\ (ss[s].pcDown = "removeOnClose" /\ ss'[s].pcDown # "removeOnClose")
           => /\ RemoveCalled(s)
              /\ calls'[Len(calls')].cid = ss[s].ctrInfo.containerid
              /\ ss'[s].toBrowser = ss[s].toBrowser
              /\ ss'[s].pcDown = "closeBrowser"
    /\ (ss[s].pcDown = "closeBrowser" /\ ss'[s].pcDown # "closeBrowser")
           => /\ calls' = calls
              /\ ss'[s].pcDown = "done"
              /\ IF WriteResults(ss[s].conn) = {"ok"}
                 THEN ss'[s].toBrowser = Append(ss[s].toBrowser, CloseMessage)
                 ELSE ss'[s].toBrowser \in {ss[s].toBrowser,
                                            Append(ss[s].toBrowser, CloseMessage)}

\* the close message is the last thing the browser got, from a goroutine that
\* has ended after a remove call of the session
CloseMessageIsLast(s) ==
    \A k \in 1..Len(ss[s].toBrowser) :
        ss[s].toBrowser[k] = CloseMessage =>
            /\ k = Len(ss[s].toBrowser)
            /\ ss[s].pcDown = "done"
            /\ RemovesOf(s) # {}

C36_CloseAfterRemove ==
    /\ [](\A s \in Sessions : CloseMessageIsLast(s))
    /\ [][\A s \in Sessions : ContainerCloseSteps(s)]_vars

\* the container sent a close frame after its output was relayed; the browser
\* got the output and then the close message, and the container was removed
C36_Witness ==
    \E s \in Sessions :
        /\ ss[s].cws.peer = "closeFrame"
        /\ Len(ss[s].toBrowser) = MaxOutput + 1
        /\ ss[s].toBrowser[Len(ss[s].toBrowser)] = CloseMessage
        /\ \E i \in RemovesOf(s) : calls[i].res = "ok"
        /\ ss[s].pcDown = "done"

=============================================================================
